---- MODULE Spec2Model ----
(***************************************************************************)
(* State-machine models of components of the repository:                   *)
(*   - service::group0_voter_registry and the voter client it drives       *)
(*   - service::view_building_coordinator                                  *)
(*   - aws::retryable_http_client                                          *)
(*   - aws::instance_profile_credentials_provider                          *)
(*   - utils::disk_space_monitor                                           *)
(*   - alternator::consumed_capacity_counter                               *)
(*   - locator::local_strategy                                             *)
(*   - delegating_reader_v2                                                *)
(*   - cql3::selection::result_set_builder                                 *)
(*   - db::view::regular_column_transformation::result                     *)
(*   - schema_applier: the four phases of a schema merge (C25)             *)
(*   - tablet metadata persistence in system.tablets (C26)                 *)
(*   - restrictions_filter: row budgets and short-circuiting               *)
(*   - api::set_system: the metrics relabel configuration endpoint         *)
(* Every component has its own variables, initial predicate, next-state    *)
(* relation and specification; a component's specification keeps the       *)
(* variables of the other components at their idle values.                 *)
(***************************************************************************)
EXTENDS Integers, Sequences, FiniteSets, TLC

VARIABLES
    \* ---- group0_voter_registry / raft_voter_client ----
    voters,        \* raft_voter_client::_voters
    max_voters,    \* group0_voter_registry::_max_voters
    reg_log,       \* history of the registry calls made so far
    \* ---- view_building_coordinator ----
    vb_pc,         \* position of view_building_coordinator::run()
    schema_views,  \* rows of system_schema.views
    built_views,   \* the built-views record of the system keyspace
    normal_nodes,  \* _topo_sm._topology.normal_nodes: host -> shard_count
    task_table,    \* rows of the view-building-coordinator task table
    vb_state,      \* _vb_state: NoState or [build_tasks |-> view -> tasks]
    as_abort,      \* _as.abort_requested()
    l_views,       \* update_coordinator_state: views
    l_built,       \* update_coordinator_state: built_views
    state_copy,    \* update_coordinator_state: state_copy
    batch,         \* update_coordinator_state: batch (its mutations)
    last_pass,     \* record of the latest reconciliation pass
    prev_pass,     \* record of the pass before it
    vb_events,     \* number of environment events so far
    vb_passes,     \* number of loop iterations started so far
    vb_listener,   \* the coordinator is registered as a listener of the notifier
    \* ---- retryable_http_client ----
    h_pc,          \* position of make_request / do_retryable_request
    h_as,          \* the abort_source* as: "null", "clear" or "aborted"
    h_as_at_entry, \* what as was when the call was made
    h_expected,    \* the argument expected (NoStatus is std::nullopt)
    h_retries,     \* do_retryable_request: retries
    h_e,           \* do_retryable_request: e (NoError is a null exception_ptr)
    h_request_ex,  \* do_retryable_request: request_ex.error()
    h_max_retries, \* the number of retries _retry_strategy allows
    h_handler_throws, \* whether _error_handler throws when it is invoked
    h_attempts,    \* the attempts made: one record per http.make_request call
    h_should_retry_calls,  \* the attempted_retries argument of every should_retry call
    h_error_handler_calls, \* the argument of every _error_handler call
    h_result,      \* how the call ended
    \* ---- instance_profile_credentials_provider ----
    c_pc,          \* position of get_aws_credentials / update_credentials
    creds,         \* instance_profile_credentials_provider::creds
    now,           \* std::chrono::system_clock::now(), in seconds
    c_token,       \* update_credentials: token
    c_role,        \* update_credentials: role
    c_call,        \* record of the get_aws_credentials call in progress or last made
    c_returned,    \* the credentials the last call returned, NoCreds before
    c_calls,       \* number of get_aws_credentials calls and clock advances so far
    \* ---- disk_space_monitor ----
    d_fs,          \* what statvfs(_data_dir) reports now
    d_cfg,         \* what the updateable values of _cfg read now
    d_space_info,  \* disk_space_monitor::_space_info
    d_as,          \* _as.abort_requested()
    d_ext_as,      \* whether the abort source given to the constructor was triggered
    d_start_pc,    \* position of start()
    d_stop_pc,     \* position of stop()
    d_poll_pc,     \* position of the thread of poll()
    d_poller_fut,  \* _poller_fut: "ready" or "poller", the future of poll()
    d_awaited,     \* the future stop() took out of _poller_fut
    d_listeners,   \* the slots connected to _signal_source
    d_emit,        \* the slots the emission of this iteration invokes
    d_calls,       \* listener -> its invocations in this iteration
    d_seen,        \* listener -> the space() it read in this iteration
    d_interval,    \* poll(): interval, NoInterval before it is computed
    d_choice,      \* the configuration read when interval was computed
    d_sampled_fs,  \* what statvfs reported to the latest get_filesystem_stats()
    d_samples,     \* number of samples the polling thread has taken
    d_after_stop,  \* whether the thread sampled or notified after stop() completed
    d_disposed_called, \* whether a disconnected slot was invoked
    \* ---- consumed_capacity_counter ----
    cc_pc,         \* "none", "live", or "validation_error" when the constructor threw
    cc_request,    \* the ReturnConsumedCapacity field of the request
    cc_counter,    \* "rcu" or "wcu": the class of the counter
    cc_is_quorum,  \* rcu_consumed_capacity_counter::_is_quorum
    cc_should_add, \* consumed_capacity_counter::_should_add_to_reponse
    cc_total_bytes, \* consumed_capacity_counter::_total_bytes
    cc_adds,       \* number of operator+= calls so far
    cc_metric,     \* the latest update_metric: the byte total and the units added
    cc_response,   \* the response after add_consumed_capacity_to_response_if_needed
    cc_response_bytes, \* _total_bytes when the response was written
    \* ---- local_strategy ----
    ls_tm,         \* the token_metadata the strategy is called with
    ls_uses_tablets, \* abstract_replication_strategy::_uses_tablets
    ls_result,     \* the latest call and what it returned
    \* ---- delegating_reader_v2 ----
    r_owned,       \* whether _underlying_holder is engaged (built from an rvalue)
    r_buf,         \* the buffer of the delegating reader
    r_eos,         \* _end_of_stream of the delegating reader
    r_pc,          \* "idle", "filling" (inside fill_buffer) or "closed"
    r_delivered,   \* the fragments popped from the delegating reader so far
    u_pos,         \* number of fragments the underlying reader has produced
    u_buf,         \* the buffer of the underlying reader
    u_eos,         \* _underlying->is_end_of_stream()
    u_closes,      \* number of close() calls the underlying reader received
    r_last,        \* the operation of the delegating reader that ran last
    \* ---- cql3::selection::result_set_builder ----
    rs_cfg,        \* [aggregate |-> _selectors->is_aggregate(), group_by |-> whether _group_by_cell_indices is not empty]
    rs_current,    \* current: NoRow when disengaged, else the group-by cell of the row
    rs_sel,        \* [acc, last_group, group_began]: rows in the selectors, _last_group, _group_began
    rs_rows,       \* the rows of _result_set
    rs_n,          \* number of new_row calls so far
    rs_in,         \* the group-by values of the rows given so far, in order
    rs_built,      \* whether build() has returned
    \* ---- regular_column_transformation::result ----
    tr_input,      \* the constructor arguments: NoInput, or [cell, f]; cell is NoCell for result()
    tr_result,     \* the result constructed, NoInput before
    \* ---- schema_applier ----
    sa_pc,         \* phase of the merge: "idle", "prepared", "updated", "commit", "committed"
    sa_batch,      \* the tables the merge touches
    sa_old,        \* the in-memory schema when prepare() ran: table -> version
    sa_done,       \* the shards commit_on_shard has run on in this commit
    sa_merges,     \* merges started
    sa_lock,       \* tables' metadata lock on all shards: "free", "applier", "observer"
    sa_live,       \* shard -> table -> version of the schema the shard's database holds
    ob_pc,         \* a component reading the schema of the shards: "idle", "reading"
    ob_locked,     \* it holds the tables' metadata lock
    ob_seen,       \* shard -> what it read there, NoView before it read
    ob_in_commit,  \* all its reads so far fell inside one commit phase
    \* ---- tablet metadata in system.tablets ----
    tm_store,      \* table id -> partition: [tomb, rows], rows: tablet -> [ts, v]
    tm_expect,     \* table id -> the tablet map written last (<<>>: none)
    tm_max_ts,     \* table id -> largest timestamp of the writes to the table
    tm_monotonic,  \* table id -> every write so far had a larger timestamp than those before
    tm_writes,     \* calls that wrote
    tm_read,       \* what read_tablet_metadata returned: table id -> tablet map
    \* ---- cql3::selection::result_set_builder::restrictions_filter ----
    rf_cfg,            \* _skip_pk_restrictions, _skip_ck_restrictions, multi-column restriction present
    rf_remaining,      \* _remaining
    rf_pp_limit,       \* _per_partition_limit
    rf_pp_remaining,   \* _per_partition_remaining
    rf_fetched,        \* _rows_fetched_for_last_partition
    rf_last_pkey,      \* _last_pkey
    rf_first,          \* _is_first_partition_on_page
    rf_pk_no,          \* _current_partition_key_does_not_match
    rf_st_no,          \* _current_static_row_does_not_match
    rf_dropped,        \* _rows_dropped
    rf_part,           \* the partition the caller is visiting: key and what its key and static row satisfy
    rf_hist,           \* history: initial budget, calls, accepted rows, accepted rows of the partition, rows carried over
    rf_last,           \* history: outcome of the last call
    \* ---- api::set_system: the metrics relabel configuration endpoint ----
    sys_relabel,       \* shard -> the relabel rule list in effect (get_relabel_configs)
    sys_req,           \* the set_metrics_config request being served
    sys_reply,         \* how the last request ended, and what was in effect before it
    sys_reqs           \* requests made

voterVars == <<voters, max_voters, reg_log>>

vbcVars == <<vb_pc, schema_views, built_views, normal_nodes, task_table,
             vb_state, as_abort, l_views, l_built, state_copy, batch,
             last_pass, prev_pass, vb_events, vb_passes, vb_listener>>

httpVars == <<h_pc, h_as, h_as_at_entry, h_expected, h_retries, h_e,
              h_request_ex, h_max_retries, h_handler_throws, h_attempts,
              h_should_retry_calls, h_error_handler_calls, h_result>>

credVars == <<c_pc, creds, now, c_token, c_role, c_call, c_returned, c_calls>>

dsmVars == <<d_fs, d_cfg, d_space_info, d_as, d_ext_as, d_start_pc, d_stop_pc,
             d_poll_pc, d_poller_fut, d_awaited, d_listeners, d_emit, d_calls,
             d_seen, d_interval, d_choice, d_sampled_fs, d_samples,
             d_after_stop, d_disposed_called>>

ccVars == <<cc_pc, cc_request, cc_counter, cc_is_quorum, cc_should_add,
            cc_total_bytes, cc_adds, cc_metric, cc_response, cc_response_bytes>>

lsVars == <<ls_tm, ls_uses_tablets, ls_result>>

readerVars == <<r_owned, r_buf, r_eos, r_pc, r_delivered, u_pos, u_buf, u_eos,
                 u_closes, r_last>>

rsVars == <<rs_cfg, rs_current, rs_sel, rs_rows, rs_n, rs_in, rs_built>>

trVars == <<tr_input, tr_result>>

saVars == <<sa_pc, sa_batch, sa_old, sa_done, sa_merges, sa_lock, sa_live,
             ob_pc, ob_locked, ob_seen, ob_in_commit>>

tmVars == <<tm_store, tm_expect, tm_max_ts, tm_monotonic, tm_writes, tm_read>>

rfVars == <<rf_cfg, rf_remaining, rf_pp_limit, rf_pp_remaining, rf_fetched,
             rf_last_pkey, rf_first, rf_pk_no, rf_st_no, rf_dropped, rf_part,
             rf_hist, rf_last>>

sysVars == <<sys_relabel, sys_req, sys_reply, sys_reqs>>

\* The variables every action of a component leaves alone: those of the
\* other components.
otherThanVoter == <<vbcVars, httpVars, credVars, dsmVars, ccVars, lsVars,
        readerVars, rsVars, trVars, saVars, tmVars, rfVars, sysVars>>
otherThanVbc == <<voterVars, httpVars, credVars, dsmVars, ccVars, lsVars,
        readerVars, rsVars, trVars, saVars, tmVars, rfVars, sysVars>>
otherThanHttp == <<voterVars, vbcVars, credVars, dsmVars, ccVars, lsVars,
        readerVars, rsVars, trVars, saVars, tmVars, rfVars, sysVars>>
otherThanCred == <<voterVars, vbcVars, httpVars, dsmVars, ccVars, lsVars,
        readerVars, rsVars, trVars, saVars, tmVars, rfVars, sysVars>>
otherThanDsm == <<voterVars, vbcVars, httpVars, credVars, ccVars, lsVars,
        readerVars, rsVars, trVars, saVars, tmVars, rfVars, sysVars>>
otherThanCc == <<voterVars, vbcVars, httpVars, credVars, dsmVars, lsVars,
        readerVars, rsVars, trVars, saVars, tmVars, rfVars, sysVars>>
otherThanLs == <<voterVars, vbcVars, httpVars, credVars, dsmVars, ccVars,
        readerVars, rsVars, trVars, saVars, tmVars, rfVars, sysVars>>
otherThanReader == <<voterVars, vbcVars, httpVars, credVars, dsmVars, ccVars,
        lsVars, rsVars, trVars, saVars, tmVars, rfVars, sysVars>>
otherThanRs == <<voterVars, vbcVars, httpVars, credVars, dsmVars, ccVars,
        lsVars, readerVars, trVars, saVars, tmVars, rfVars, sysVars>>
otherThanTr == <<voterVars, vbcVars, httpVars, credVars, dsmVars, ccVars,
        lsVars, readerVars, rsVars, saVars, tmVars, rfVars, sysVars>>
otherThanSa == <<voterVars, vbcVars, httpVars, credVars, dsmVars, ccVars,
        lsVars, readerVars, rsVars, trVars, tmVars, rfVars, sysVars>>
otherThanTm == <<voterVars, vbcVars, httpVars, credVars, dsmVars, ccVars,
        lsVars, readerVars, rsVars, trVars, saVars, rfVars, sysVars>>
otherThanRf == <<voterVars, vbcVars, httpVars, credVars, dsmVars, ccVars,
        lsVars, readerVars, rsVars, trVars, saVars, tmVars, sysVars>>
otherThanSys == <<voterVars, vbcVars, httpVars, credVars, dsmVars, ccVars,
        lsVars, readerVars, rsVars, trVars, saVars, tmVars, rfVars>>

(***************************************************************************)
(* Bounds                                                                  *)
(***************************************************************************)
NumNodes == 3    \* number of distinct raft::server_id values
MaxCap == 2      \* largest finite voter limit a registry is built with
MaxCalls == 3    \* number of registry calls in one behaviour
NumHosts == 2    \* number of cluster members that can be normal nodes
MaxShards == 2   \* largest shard_count of a node
MaxVbEvents == 2 \* schema, topology and built-view events in one behaviour
MaxVbPasses == 3 \* loop iterations of the coordinator in one behaviour
MaxRetries == 2  \* largest number of retries a retry strategy allows
MaxCredSteps == 5 \* get_aws_credentials calls plus clock advances in one behaviour
NumListeners == 2 \* number of callbacks given to disk_space_monitor::listen
MaxPolls == 2    \* samples the polling thread takes in one behaviour
MaxAdds == 2     \* operator+= calls on one consumed_capacity_counter
StreamLen == 4   \* fragments the underlying reader of a delegating reader produces
MaxBufferLen == 2 \* fragments that make the buffer of a delegating reader full
MaxRows == 3     \* input rows given to one result_set_builder
smp_count == 2    \* shards of the node
MaxMerges == 2    \* schema merges in a run
MaxTablets == 2    \* tablets of a tablet map
MaxTimestamp == 3    \* largest write timestamp
MaxTabletWrites == 2    \* writes of tablet maps in a run
MaxBudget == 2   \* rows the limits of a query allow
MaxOffers == 3   \* candidate rows offered to one restrictions_filter
MaxRequests == 3 \* requests to set_metrics_config
UintBits == 2    \* width of the unsigned counters of restrictions_filter

\* std::numeric_limits<size_t>::max(), the default of max_voters.  Only its
\* being larger than any set size matters; the value is the largest integer
\* the model checker represents.
SIZE_MAX == 2147483647

Nodes == 1..NumNodes

Min(a, b) == IF a <= b THEN a ELSE b

(***************************************************************************)
(* group0_voter_registry                                                   *)
(***************************************************************************)

\* Plausible defects of set_voters_status, used to validate the properties.
set_voters_status_replace(cur, nodes, can_vote) ==
    IF can_vote = "yes" THEN nodes ELSE cur \ nodes

set_voters_status_erase_one(cur, nodes, can_vote) ==
    IF can_vote = "yes" THEN cur \cup nodes
    ELSE IF nodes = {} THEN cur ELSE cur \ {CHOOSE n \in nodes : TRUE}

\* raft_voter_client::set_voters_status of the test's voter client: the
\* voter set after the call.
set_voters_status(cur, nodes, can_vote) ==
    IF can_vote = "yes" THEN cur \cup nodes ELSE cur \ nodes

\* The values new_voters can have when the loop of insert_nodes ends.  The
\* loop walks the unordered set in an unspecified order and stops as soon as
\* new_voters.size() >= _max_voters, so new_voters is some subset of the
\* argument with min(|nodes|, _max_voters) elements.
new_voters_of(nodes, max) ==
    {nv \in SUBSET nodes : Cardinality(nv) = Min(Cardinality(nodes), max)}

VoterInit ==
    /\ voters = {}
    /\ max_voters \in (0..MaxCap) \cup {SIZE_MAX}
    /\ reg_log = <<>>

VoterIdle ==
    /\ voters = {}
    /\ max_voters = SIZE_MAX
    /\ reg_log = <<>>

LogCall(op, nodes, after) ==
    reg_log' = Append(reg_log, [op |-> op, nodes |-> nodes, after |-> after])

\* group0_voter_registry::insert_nodes
insert_nodes(nodes) ==
    /\ Len(reg_log) < MaxCalls
    /\ \E new_voters \in new_voters_of(nodes, max_voters) :
          /\ voters' = set_voters_status(voters, new_voters, "yes")
          /\ LogCall("insert_nodes", nodes, voters')
    /\ UNCHANGED <<max_voters, otherThanVoter>>

\* group0_voter_registry::insert_node: insert_nodes({node})
insert_node(node) ==
    /\ Len(reg_log) < MaxCalls
    /\ \E new_voters \in new_voters_of({node}, max_voters) :
          /\ voters' = set_voters_status(voters, new_voters, "yes")
          /\ LogCall("insert_node", {node}, voters')
    /\ UNCHANGED <<max_voters, otherThanVoter>>

\* group0_voter_registry::remove_nodes
remove_nodes(nodes) ==
    /\ Len(reg_log) < MaxCalls
    /\ voters' = set_voters_status(voters, nodes, "no")
    /\ LogCall("remove_nodes", nodes, voters')
    /\ UNCHANGED <<max_voters, otherThanVoter>>

\* group0_voter_registry::remove_node: remove_nodes({node})
remove_node(node) ==
    /\ Len(reg_log) < MaxCalls
    /\ voters' = set_voters_status(voters, {node}, "no")
    /\ LogCall("remove_node", {node}, voters')
    /\ UNCHANGED <<max_voters, otherThanVoter>>

VoterNext ==
    \/ \E nodes \in SUBSET Nodes : insert_nodes(nodes)
    \/ \E node \in Nodes : insert_node(node)
    \/ \E nodes \in SUBSET Nodes : remove_nodes(nodes)
    \/ \E node \in Nodes : remove_node(node)

IsInsert(c) == c.op \in {"insert_node", "insert_nodes"}
IsRemove(c) == c.op \in {"remove_node", "remove_nodes"}

\* The voter set a call history yields when every inserted node is admitted.
RECURSIVE Replay(_)
Replay(log) ==
    IF log = <<>> THEN {}
    ELSE LET c == log[Len(log)]
             before == Replay(SubSeq(log, 1, Len(log) - 1))
         IN IF IsInsert(c) THEN before \cup c.nodes ELSE before \ c.nodes

\* C1: with maximum M the voter client never holds more than M voters,
\* whatever insert and remove calls were made.
VoterCountWithinMax == Cardinality(voters) <= max_voters

\* C2: after one insert_nodes call that offered more than M nodes and a
\* remove_node of one of the resulting voters, the voter set has exactly M
\* members again and does not contain the removed node.
LimitKeptOnRemoval ==
    ( /\ Len(reg_log) = 2
      /\ reg_log[1].op = "insert_nodes"
      /\ Cardinality(reg_log[1].nodes) > max_voters
      /\ reg_log[2].op = "remove_node"
      /\ reg_log[2].nodes \subseteq reg_log[1].after )
    => ( /\ Cardinality(voters) = max_voters
         /\ reg_log[2].nodes \cap voters = {} )

\* C3: after inserting a set S that fits under the maximum and then removing
\* a set R, the voter set is exactly S \ R.
RemoveLeavesRest ==
    ( /\ Len(reg_log) = 2
      /\ IsInsert(reg_log[1])
      /\ Cardinality(reg_log[1].nodes) <= max_voters
      /\ IsRemove(reg_log[2]) )
    => voters = reg_log[1].nodes \ reg_log[2].nodes

RemoveLeavesRestWitness ==
    /\ Len(reg_log) = 2
    /\ reg_log[1].op = "insert_nodes"
    /\ Cardinality(reg_log[1].nodes) = 3
    /\ max_voters = SIZE_MAX
    /\ reg_log[2].op = "remove_nodes"
    /\ Cardinality(reg_log[2].nodes) = 2
    /\ reg_log[2].nodes \subseteq reg_log[1].nodes
    /\ Cardinality(voters) = 1

\* C4: with the default (unbounded) maximum every inserted node is a voter:
\* the voter set is the union of the inserted sets minus the removed nodes,
\* taken in call order.
UnboundedInsertsAll ==
    max_voters = SIZE_MAX => voters = Replay(reg_log)

UnboundedInsertsAllWitness ==
    /\ max_voters = SIZE_MAX
    /\ Len(reg_log) = 3
    /\ reg_log[1].op = "insert_node"
    /\ reg_log[2].op = "insert_nodes"
    /\ Cardinality(reg_log[2].nodes) = 2
    /\ reg_log[1].nodes \cap reg_log[2].nodes = {}
    /\ reg_log[3].op = "remove_node"
    /\ reg_log[3].nodes \subseteq reg_log[2].nodes
    /\ Cardinality(voters) = 2

(***************************************************************************)
(* view_building_coordinator                                               *)
(***************************************************************************)
Views == {<<"ks_tablets", "v1">>, <<"ks_tablets", "v2">>, <<"ks_vnodes", "v1">>}
Hosts == 1..NumHosts

NoState == [none |-> TRUE]
NoPass == [none |-> TRUE]

\* _db.find_keyspace(ks).uses_tablets()
uses_tablets(ks) == ks = "ks_tablets"

\* _sys_ks.get_view_building_coordinator_tasks(): the task table as a map
\* view -> set of (host, shard)
tasks_of_table(table) ==
    [v \in {r.view : r \in table} |->
        {<<r.host, r.shard>> : r \in {x \in table : x.view = v}}]

\* add_view: the (host, shard) pairs of the currently normal nodes, one per
\* shard of every node
view_tasks(nodes) ==
    {<<h, sh>> \in Hosts \X (0..(MaxShards - 1)) :
        h \in DOMAIN nodes /\ sh < nodes[h]}

\* add_view: the INSERT mutations added to the batch for a view
add_view_mutations(view, nodes) ==
    {[op |-> "insert", view |-> view, host |-> t[1], shard |-> t[2]] :
        t \in view_tasks(nodes)}

\* remove_view: the DELETE mutation added to the batch for a view
remove_view_mutations(view) ==
    {[op |-> "delete", view |-> view, host |-> 0, shard |-> 0]}

\* Defect: the test that the view is not tracked yet is missing.
views_to_add_untracked_unchecked(views, built, tracked) ==
    {v \in views : uses_tablets(v[1]) /\ v \notin built}

\* Defect: the test that the view is not built yet is missing.
views_to_add_built_unchecked(views, built, tracked) ==
    {v \in views : uses_tablets(v[1]) /\ v \notin tracked}

\* update_coordinator_state, first loop: the views add_view is called for
views_to_add(views, built, tracked) ==
    {v \in views : /\ ~(~uses_tablets(v[1]) \/ v \in built)
                   /\ v \notin tracked}

\* update_coordinator_state, second loop: the views remove_view is called for
views_to_remove(views, tracked) == {v \in tracked : v \notin views}

\* state_copy.build_tasks after both loops
build_tasks_after(tasks, added, removed, nodes) ==
    [v \in (DOMAIN tasks \cup added) \ removed |->
        IF v \in added THEN view_tasks(nodes) ELSE tasks[v]]

\* the batch after both loops
batch_after(added, removed, nodes) ==
    UNION ({add_view_mutations(v, nodes) : v \in added}
           \cup {remove_view_mutations(v) : v \in removed})

\* The task table after the mutations of a batch are applied.
apply_batch(table, b) ==
    {r \in table : ~\E m \in b : m.op = "delete" /\ m.view = r.view}
    \cup {[view |-> m.view, host |-> m.host, shard |-> m.shard] :
            m \in {x \in b : x.op = "insert"}}

\* Task tables a coordinator can find when it starts: empty, or the rows a
\* former coordinator left for a view.
InitialTables ==
    {{}, {[view |-> <<"ks_tablets", "v2">>, host |-> 1, shard |-> 0]}}

InitialNodeMaps == {<<>>, [h \in {1} |-> 1]}

NodeMaps ==
    UNION {[hs -> 1..MaxShards] : hs \in SUBSET Hosts}

VbcInit ==
    /\ vb_pc = "init"
    /\ schema_views \in SUBSET Views
    /\ built_views = {}
    /\ normal_nodes \in InitialNodeMaps
    /\ task_table \in InitialTables
    /\ vb_state = NoState
    /\ as_abort = FALSE
    /\ l_views = {}
    /\ l_built = {}
    /\ state_copy = NoState
    /\ batch = {}
    /\ last_pass = NoPass
    /\ prev_pass = NoPass
    /\ vb_events = 0
    /\ vb_passes = 0
    /\ vb_listener = TRUE

VbcIdle ==
    /\ vb_pc = "init"
    /\ schema_views = {}
    /\ built_views = {}
    /\ normal_nodes = <<>>
    /\ task_table = {}
    /\ vb_state = NoState
    /\ as_abort = FALSE
    /\ l_views = {}
    /\ l_built = {}
    /\ state_copy = NoState
    /\ batch = {}
    /\ last_pass = NoPass
    /\ prev_pass = NoPass
    /\ vb_events = 0
    /\ vb_passes = 0
    /\ vb_listener = TRUE

vbcEnv == <<schema_views, built_views, normal_nodes, as_abort>>
vbcLocals == <<l_views, l_built, state_copy, batch>>
vbcPasses == <<last_pass, prev_pass>>
vbcCount == <<vb_events, vb_passes>>

\* The record kept of a reconciliation pass: what it read, what it put into
\* the batch, whether it committed, whether it returned normally and, for
\* the last pass, whether it failed with no notification or abort since.
PassRecord(ok, committed) ==
    [views |-> l_views, built |-> l_built, nodes |-> normal_nodes,
     batch |-> batch, committed |-> committed, ok |-> ok,
     quiet |-> ~ok]

\* a notification or the abort signal arrived, or the pass is not the last
\* one any more
Notified(p) == IF p = NoPass THEN NoPass ELSE [p EXCEPT !.quiet = FALSE]

RecordPass(ok, committed) ==
    /\ prev_pass' = Notified(last_pass)
    /\ last_pass' = PassRecord(ok, committed)

\* initialize_coordinator_state
initialize_coordinator_state ==
    /\ vb_pc = "init"
    /\ vb_state' = [build_tasks |-> tasks_of_table(task_table)]
    /\ vb_pc' = "loop"
    /\ UNCHANGED <<otherThanVbc, vb_listener, vbcEnv, vbcLocals, vbcPasses, task_table, vbcCount>>

\* run(): while (!_as.abort_requested())
loop_check ==
    /\ vb_pc = "loop"
    /\ IF as_abort THEN vb_pc' = "done" /\ UNCHANGED vb_passes
       ELSE /\ vb_passes < MaxVbPasses
            /\ vb_passes' = vb_passes + 1
            /\ vb_pc' = "start_operation"
    /\ UNCHANGED <<otherThanVbc, vb_listener, vbcEnv, vbcLocals, vbcPasses, task_table, vb_state, vb_events>>

\* start_operation(): the guard is acquired
start_operation_ok ==
    /\ vb_pc = "start_operation"
    /\ vb_pc' = "load_all_views"
    /\ UNCHANGED <<otherThanVbc, vb_listener, vbcEnv, vbcLocals, vbcPasses, task_table, vb_state, vbcCount>>

\* start_operation() throws (abort requested, or the guard is not obtained);
\* run() catches the exception
start_operation_fails ==
    /\ vb_pc = "start_operation"
    /\ vb_pc' = "maybe_yield"
    /\ UNCHANGED <<otherThanVbc, vb_listener, vbcEnv, vbcLocals, vbcPasses, task_table, vb_state, vbcCount>>

\* update_coordinator_state: views = co_await load_all_views()
load_all_views ==
    /\ vb_pc = "load_all_views"
    /\ l_views' = schema_views
    /\ vb_pc' = "load_built_views"
    /\ UNCHANGED <<otherThanVbc, vb_listener, vbcEnv, l_built, state_copy, batch, vbcPasses, task_table,
                   vb_state, vbcCount>>

\* update_coordinator_state: built_views = co_await load_built_views()
load_built_views ==
    /\ vb_pc = "load_built_views"
    /\ l_built' = built_views
    /\ vb_pc' = "reconcile"
    /\ UNCHANGED <<otherThanVbc, vb_listener, vbcEnv, l_views, state_copy, batch, vbcPasses, task_table,
                   vb_state, vbcCount>>

\* update_coordinator_state: the two loops over views and build_tasks, up to
\* the test of batch.empty()
reconcile ==
    /\ vb_pc = "reconcile"
    /\ LET tracked == DOMAIN vb_state.build_tasks
           added == views_to_add(l_views, l_built, tracked)
           removed == views_to_remove(l_views, tracked)
       IN /\ state_copy' = [build_tasks |->
                 build_tasks_after(vb_state.build_tasks, added, removed,
                                   normal_nodes)]
          /\ batch' = batch_after(added, removed, normal_nodes)
          /\ IF batch' # {}
             THEN vb_pc' = "commit" /\ UNCHANGED vbcPasses
             ELSE /\ vb_pc' = "await_event"
                  /\ prev_pass' = Notified(last_pass)
                  /\ last_pass' = [PassRecord(TRUE, FALSE) EXCEPT !.batch = {}]
    /\ UNCHANGED <<otherThanVbc, vb_listener, vbcEnv, l_views, l_built, task_table, vb_state, vbcCount>>

\* update_coordinator_state throws before the commit (a query of
\* load_all_views, load_built_views, add_view or remove_view fails); run()
\* catches the exception
update_fails ==
    /\ vb_pc \in {"load_all_views", "load_built_views", "reconcile"}
    /\ vb_pc' = "maybe_yield"
    /\ UNCHANGED <<otherThanVbc, vb_listener, vbcEnv, vbcLocals, vbcPasses, task_table,
                   vb_state, vbcCount>>

\* update_coordinator_state: batch.commit() succeeds, then
\* _vb_state = std::move(state_copy)
commit_ok ==
    /\ vb_pc = "commit"
    /\ task_table' = apply_batch(task_table, batch)
    /\ vb_state' = state_copy
    /\ RecordPass(TRUE, TRUE)
    /\ vb_pc' = "await_event"
    /\ UNCHANGED <<otherThanVbc, vb_listener, vbcEnv, vbcLocals, vbcCount>>

commit_fails_state_replaced ==
    /\ vb_pc = "commit"
    /\ vb_state' = state_copy
    /\ RecordPass(FALSE, FALSE)
    /\ vb_pc' = "maybe_yield"
    /\ UNCHANGED <<otherThanVbc, vb_listener, vbcEnv, vbcLocals, task_table, vbcCount>>

\* update_coordinator_state: batch.commit() throws; run() catches
commit_fails ==
    /\ vb_pc = "commit"
    /\ RecordPass(FALSE, FALSE)
    /\ vb_pc' = "maybe_yield"
    /\ UNCHANGED <<otherThanVbc, vb_listener, vbcEnv, vbcLocals, task_table, vb_state, vbcCount>>

await_event_unchecked ==
    /\ vb_pc = "await_event"
    /\ vb_pc' = "waiting"
    /\ UNCHANGED <<otherThanVbc, vb_listener, vbcEnv, vbcLocals, vbcPasses, task_table, vb_state, vbcCount>>

\* await_event(): _as.check() throws when abort was requested, otherwise the
\* coroutine waits on _cond
await_event ==
    /\ vb_pc = "await_event"
    /\ vb_pc' = IF as_abort THEN "maybe_yield" ELSE "waiting"
    /\ UNCHANGED <<otherThanVbc, vb_listener, vbcEnv, vbcLocals, vbcPasses, task_table, vb_state, vbcCount>>

\* run(): co_await coroutine::maybe_yield() at the end of the loop body
maybe_yield ==
    /\ vb_pc = "maybe_yield"
    /\ vb_pc' = "loop"
    /\ UNCHANGED <<otherThanVbc, vb_listener, vbcEnv, vbcLocals, vbcPasses, task_table, vb_state, vbcCount>>

\* _cond.broadcast(): a coroutine waiting in _cond.when() is resumed; with no
\* waiter the broadcast has no effect
broadcast(pc) == IF pc = "waiting" THEN "maybe_yield" ELSE pc

\* a view is created: system_schema.views gets the row and on_create_view runs
on_create_view(v) ==
    /\ vb_events < MaxVbEvents
    /\ v \notin schema_views
    /\ schema_views' = schema_views \cup {v}
    /\ vb_pc' = IF vb_listener THEN broadcast(vb_pc) ELSE vb_pc
    /\ vb_events' = vb_events + 1
    /\ last_pass' = Notified(last_pass)
    /\ UNCHANGED <<otherThanVbc, vb_listener, built_views, normal_nodes, as_abort, vbcLocals, prev_pass,
                   task_table, vb_state, vb_passes>>

\* a view is dropped: its rows leave system_schema.views and the built-views
\* record, and on_drop_view runs
on_drop_view(v) ==
    /\ vb_events < MaxVbEvents
    /\ v \in schema_views
    /\ schema_views' = schema_views \ {v}
    /\ built_views' = built_views \ {v}
    /\ vb_pc' = IF vb_listener THEN broadcast(vb_pc) ELSE vb_pc
    /\ vb_events' = vb_events + 1
    /\ last_pass' = Notified(last_pass)
    /\ UNCHANGED <<otherThanVbc, vb_listener, normal_nodes, as_abort, vbcLocals, prev_pass, task_table,
                   vb_state, vb_passes>>

\* a view finishes building and is recorded as built
view_built(v) ==
    /\ vb_events < MaxVbEvents
    /\ v \in schema_views \ built_views
    /\ built_views' = built_views \cup {v}
    /\ vb_events' = vb_events + 1
    /\ UNCHANGED <<otherThanVbc, vb_listener, vb_pc, schema_views, normal_nodes, as_abort, vbcLocals,
                   vbcPasses, task_table, vb_state, vb_passes>>

\* the set of normal nodes of the topology changes: one node joins or leaves
topology_change(nm) ==
    /\ vb_events < MaxVbEvents
    /\ \/ \E h \in DOMAIN normal_nodes :
             nm = [x \in DOMAIN normal_nodes \ {h} |-> normal_nodes[x]]
       \/ \E h \in DOMAIN nm \ DOMAIN normal_nodes :
             /\ DOMAIN nm = DOMAIN normal_nodes \cup {h}
             /\ \A x \in DOMAIN normal_nodes : nm[x] = normal_nodes[x]
    /\ normal_nodes' = nm
    /\ vb_events' = vb_events + 1
    /\ UNCHANGED <<otherThanVbc, vb_listener, vb_pc, schema_views, built_views, as_abort, vbcLocals,
                   vbcPasses, task_table, vb_state, vb_passes>>

\* abort is requested: the subscription made in run() broadcasts _cond
request_abort ==
    /\ ~as_abort
    /\ vb_pc # "init"
    /\ as_abort' = TRUE
    /\ vb_pc' = broadcast(vb_pc)
    /\ last_pass' = Notified(last_pass)
    /\ UNCHANGED <<otherThanVbc, vb_listener, schema_views, built_views, normal_nodes, vbcLocals,
                   prev_pass, task_table, vb_state, vbcCount>>

\* run_view_building_coordinator: run() has returned, no exception is held,
\* the listener is unregistered and the function returns
unregister_listener ==
    /\ vb_pc = "done"
    /\ vb_listener' = FALSE
    /\ vb_pc' = "returned"
    /\ UNCHANGED <<otherThanVbc, vbcEnv, vbcLocals, vbcPasses, task_table,
                   vb_state, vbcCount>>

\* the steps of the coordinator's own fiber
VbcRun ==
    \/ initialize_coordinator_state
    \/ loop_check
    \/ start_operation_ok
    \/ start_operation_fails
    \/ load_all_views
    \/ load_built_views
    \/ reconcile
    \/ update_fails
    \/ commit_ok
    \/ commit_fails
    \/ await_event
    \/ maybe_yield
    \/ unregister_listener

VbcNext ==
    \/ initialize_coordinator_state
    \/ loop_check
    \/ start_operation_ok
    \/ start_operation_fails
    \/ load_all_views
    \/ load_built_views
    \/ reconcile
    \/ update_fails
    \/ commit_ok
    \/ commit_fails
    \/ await_event
    \/ maybe_yield
    \/ \E v \in Views : on_create_view(v)
    \/ \E v \in Views : on_drop_view(v)
    \/ \E v \in Views : view_built(v)
    \/ \E nm \in NodeMaps : topology_change(nm)
    \/ request_abort
    \/ unregister_listener

\* Two passes read the same view list, built-view set and normal-node set.
SameInputs(p, q) ==
    /\ p.views = q.views
    /\ p.built = q.built
    /\ p.nodes = q.nodes

\* C5: when reconciliation has run twice in a row and the second run saw the
\* view list, built-view set and normal-node set of the first, the second run
\* put no mutation into the batch and made no commit.
ReconcileIdempotent ==
    ( /\ prev_pass # NoPass
      /\ last_pass # NoPass
      /\ prev_pass.ok
      /\ SameInputs(prev_pass, last_pass) )
    => ( last_pass.batch = {} /\ ~last_pass.committed )

ReconcileIdempotentWitness ==
    /\ prev_pass # NoPass
    /\ last_pass # NoPass
    /\ prev_pass.ok
    /\ prev_pass.committed
    /\ \E m \in prev_pass.batch : m.op = "insert"
    /\ SameInputs(prev_pass, last_pass)
    /\ last_pass.batch = {}
    /\ vb_pc = "waiting"

\* C27: _vb_state changes in a pass only in the step in which the commit of
\* a non-empty batch completes, and then to state_copy; a pass whose commit
\* or earlier step fails, or whose batch is empty, leaves it as it was.
TaskSetReplacedOnlyAfterCommit ==
    [][ (vb_pc # "init" /\ vb_state' # vb_state)
          => ( /\ vb_pc = "commit"
               /\ batch # {}
               /\ last_pass'.ok
               /\ last_pass'.committed
               /\ vb_state' = state_copy ) ]_vbcVars

\* a pass whose commit failed has ended and _vb_state is not the copy the
\* pass had prepared
TaskSetReplacedOnlyAfterCommitWitness ==
    /\ vb_pc = "maybe_yield"
    /\ last_pass # NoPass
    /\ ~last_pass.ok
    /\ last_pass.batch # {}
    /\ state_copy # NoState
    /\ vb_state # state_copy

\* C28: the views a pass schedules (those it adds to state_copy and those
\* it puts INSERT mutations into the batch for) are views of the list it
\* read whose keyspace uses tablets, that are not in the built set it read
\* and that _vb_state does not track; no pass schedules a view it read as
\* built.
ScheduledOnlyUnbuiltTabletViews ==
    /\ vb_pc = "commit" =>
          /\ \A v \in DOMAIN state_copy.build_tasks \ DOMAIN vb_state.build_tasks :
                uses_tablets(v[1]) /\ v \in l_views /\ v \notin l_built
          /\ \A m \in batch :
                m.op = "insert" =>
                    /\ uses_tablets(m.view[1])
                    /\ m.view \in l_views
                    /\ m.view \notin l_built
                    /\ m.view \notin DOMAIN vb_state.build_tasks
    /\ last_pass # NoPass =>
          \A m \in last_pass.batch :
              m.op = "insert" => m.view \notin last_pass.built

\* a pass is about to commit the tasks of a view while it skipped a view of
\* a tablets keyspace that is in the list and built
ScheduledOnlyUnbuiltTabletViewsWitness ==
    /\ vb_pc = "commit"
    /\ \E m \in batch : m.op = "insert"
    /\ \E v \in l_views \cap l_built :
          uses_tablets(v[1]) /\ v \notin DOMAIN state_copy.build_tasks
    /\ \E v \in l_views : ~uses_tablets(v[1])

\* C29 as stated: after an iteration whose commit failed, the coordinator is
\* in its next attempt (from start_operation on) only if a notification or
\* the abort signal came after the failure.
RetryOnlyAfterEvent ==
    ( /\ vb_pc \in {"start_operation", "load_all_views", "load_built_views",
                    "reconcile", "commit"}
      /\ last_pass # NoPass
      /\ ~last_pass.ok )
    => ~last_pass.quiet

\* C30, safety part: the exceptions of an iteration are caught inside the
\* loop, so the coordinator is registered as a listener exactly until
\* run_view_building_coordinator returns, and run() ends only once abort was
\* requested.
ListenerUnregisteredAtReturn ==
    /\ vb_listener <=> vb_pc # "returned"
    /\ vb_pc \in {"done", "returned"} => as_abort

\* C30: once abort is requested, run() leaves its loop and
\* run_view_building_coordinator unregisters the listener and returns.
AbortEndsCoordinator ==
    /\ []ListenerUnregisteredAtReturn
    /\ as_abort ~> (vb_pc = "returned" /\ ~vb_listener)

\* the abort came while the coordinator waited for an event after a commit,
\* and the function has returned
AbortEndsCoordinatorWitness ==
    /\ as_abort
    /\ vb_pc = "returned"
    /\ ~vb_listener
    /\ last_pass # NoPass
    /\ last_pass.committed

\* C31 as stated: once a reconciliation commit has succeeded, a view is
\* tracked in _vb_state exactly when the task table holds rows for it, and
\* its (host, shard) entries are exactly those rows.
TaskSetMirrorsTable ==
    (last_pass # NoPass /\ last_pass.committed) =>
        \A v \in Views :
            /\ v \in DOMAIN vb_state.build_tasks
                  <=> (\E r \in task_table : r.view = v)
            /\ v \in DOMAIN vb_state.build_tasks =>
                  vb_state.build_tasks[v]
                      = {<<r.host, r.shard>> : r \in {x \in task_table : x.view = v}}

\* C38 as stated: no create-view or drop-view notification is lost: when the
\* coordinator starts to wait for a notification, every notification fired
\* since the last pass loaded the view list has caused another pass, so the
\* list that pass loaded is the current one and every unbuilt view of a
\* tablets keyspace in it needs no further notification to be scheduled.
NoNotificationLost ==
    vb_pc = "waiting" => l_views = schema_views

(***************************************************************************)
(* retryable_http_client                                                   *)
(***************************************************************************)
NoStatus == 0
NoError == [kind |-> "none", type |-> "OK", retryable |-> FALSE]

\* http::reply::status_type::ok
StatusOk == 200

\* The reply statuses a server answers with.
Statuses == {100, 200, 204, 301, 404, 503}
\* The values of the argument expected.
Expectations == {NoStatus, 100, 200, 204}

\* http::reply::classify_status
classify_status(status) ==
    LET sc == status \div 100
    IN CASE sc = 1 -> "informational"
         [] sc = 2 -> "success"
         [] sc = 3 -> "redirection"
         [] sc = 4 -> "client_error"
         [] sc = 5 -> "server_error"
         [] OTHER -> "unclassified"

\* expected.value_or(http::reply::status_type::ok)
expected_or_ok(expected) == IF expected = NoStatus THEN StatusOk ELSE expected

\* Defect: the comparison with the expected status is missing.
reply_outcome_any_success(status, expected) ==
    IF classify_status(status) \notin {"informational", "success"}
    THEN "aws_exception"
    ELSE "handler"

\* make_request, the reply handler passed to do_retryable_request: what is
\* done with a reply of the given status
reply_outcome(status, expected) ==
    IF /\ classify_status(status) # "informational"
       /\ classify_status(status) # "success"
    THEN "aws_exception"
    ELSE IF status # expected_or_ok(expected)
         THEN "unexpected_status"
         ELSE "handler"

\* _retry_strategy.should_retry(error, attempted_retries) of a strategy that
\* allows max retries
should_retry(error, attempted_retries, max) ==
    error.retryable /\ attempted_retries < max

\* the catch clauses of do_retryable_request: request_ex for a caught exception
request_ex_of(ex) ==
    CASE ex.kind = "aws_exception" -> [type |-> ex.type, retryable |-> ex.retryable]
      [] ex.kind = "system_error" -> [type |-> "SYSTEM", retryable |-> ex.retryable]
      [] OTHER -> [type |-> "UNKNOWN", retryable |-> FALSE]

HttpInit ==
    /\ h_pc = "idle"
    /\ h_as = "null"
    /\ h_as_at_entry = "null"
    /\ h_expected = NoStatus
    /\ h_retries = 0
    /\ h_e = NoError
    /\ h_request_ex = [type |-> "OK", retryable |-> TRUE]
    /\ h_max_retries \in 0..MaxRetries
    /\ h_handler_throws \in BOOLEAN
    /\ h_attempts = <<>>
    /\ h_should_retry_calls = <<>>
    /\ h_error_handler_calls = <<>>
    /\ h_result = "pending"

HttpIdle ==
    /\ h_pc = "idle"
    /\ h_as = "null"
    /\ h_as_at_entry = "null"
    /\ h_expected = NoStatus
    /\ h_retries = 0
    /\ h_e = NoError
    /\ h_request_ex = [type |-> "OK", retryable |-> TRUE]
    /\ h_max_retries = 0
    /\ h_handler_throws = FALSE
    /\ h_attempts = <<>>
    /\ h_should_retry_calls = <<>>
    /\ h_error_handler_calls = <<>>
    /\ h_result = "pending"

httpConfig == <<h_max_retries, h_handler_throws>>
httpLogs == <<h_should_retry_calls, h_error_handler_calls>>

\* Defect: the check of the abort source on entry is missing.
make_request_unchecked(expected, as) ==
    /\ h_pc = "idle"
    /\ h_expected' = expected
    /\ h_as' = as
    /\ h_as_at_entry' = as
    /\ h_retries' = 0
    /\ h_e' = NoError
    /\ h_request_ex' = [type |-> "OK", retryable |-> TRUE]
    /\ h_pc' = "attempt"
    /\ UNCHANGED <<otherThanHttp, httpConfig, httpLogs, h_attempts, h_result>>

\* make_request and the entry of do_retryable_request, up to the loop
make_request(expected, as) ==
    /\ h_pc = "idle"
    /\ h_expected' = expected
    /\ h_as' = as
    /\ h_as_at_entry' = as
    /\ IF as = "aborted"
       THEN /\ h_result' = "abort_requested_exception"
            /\ h_pc' = "done"
            /\ UNCHANGED <<h_retries, h_e, h_request_ex>>
       ELSE /\ h_retries' = 0
            /\ h_e' = NoError
            /\ h_request_ex' = [type |-> "OK", retryable |-> TRUE]
            /\ h_pc' = "attempt"
            /\ UNCHANGED h_result
    /\ UNCHANGED <<otherThanHttp, httpConfig, httpLogs, h_attempts>>

\* the abort source is triggered while the call is in progress
http_abort ==
    /\ h_pc \notin {"idle", "done"}
    /\ h_as = "clear"
    /\ h_as' = "aborted"
    /\ UNCHANGED <<otherThanHttp, httpConfig, httpLogs, h_pc, h_as_at_entry,
                   h_expected, h_retries, h_e, h_request_ex, h_attempts,
                   h_result>>

\* a caught exception: e = std::current_exception() and request_ex is set
Caught(ex, attempt) ==
    /\ h_e' = ex
    /\ h_request_ex' = request_ex_of(ex)
    /\ h_attempts' = Append(h_attempts, attempt)
    /\ h_pc' = "should_retry"
    /\ UNCHANGED <<otherThanHttp, httpConfig, httpLogs, h_as, h_as_at_entry,
                   h_expected, h_retries, h_result>>

\* the request of this iteration completes: co_return
Returned(attempt) ==
    /\ h_e' = NoError
    /\ h_attempts' = Append(h_attempts, attempt)
    /\ h_result' = "returned"
    /\ h_pc' = "done"
    /\ UNCHANGED <<otherThanHttp, httpConfig, httpLogs, h_as, h_as_at_entry,
                   h_expected, h_retries, h_request_ex>>

Attempt(kind, status, handler_invoked, raised, retryable) ==
    [kind |-> kind, status |-> status, handler_invoked |-> handler_invoked,
     raised |-> raised, retryable |-> retryable]

\* one iteration of the loop: http.make_request gets a reply of the given
\* status and the reply handler of make_request runs; parsed_retryable is the
\* retryable flag of the aws_error made from the body or the status, and
\* handler_ok tells whether the caller's handler returns normally
attempt_reply(status, parsed_retryable, handler_ok) ==
    /\ h_pc = "attempt"
    /\ LET outcome == reply_outcome(status, h_expected)
       IN CASE outcome = "aws_exception" ->
                 /\ handler_ok
                 /\ Caught([kind |-> "aws_exception", type |-> "HTTP",
                            retryable |-> parsed_retryable],
                           Attempt("reply", status, FALSE, "aws_exception",
                                   parsed_retryable))
            [] outcome = "unexpected_status" ->
                 /\ handler_ok /\ ~parsed_retryable
                 /\ Caught([kind |-> "other", type |-> "unexpected_status_error",
                            retryable |-> FALSE],
                           Attempt("reply", status, FALSE, "unexpected_status",
                                   FALSE))
            [] outcome = "handler" /\ handler_ok ->
                 /\ ~parsed_retryable
                 /\ Returned(Attempt("reply", status, TRUE, "nothing", FALSE))
            [] OTHER ->
                 \* the caller's handler throws: an aws_exception carrying a
                 \* retryable error, or an exception of another type
                 Caught([kind |-> IF parsed_retryable THEN "aws_exception"
                                  ELSE "other",
                         type |-> "handler_exception",
                         retryable |-> parsed_retryable],
                        Attempt("reply", status, TRUE, "handler_exception",
                                parsed_retryable))

\* one iteration of the loop: http.make_request throws std::system_error;
\* retryable is the flag aws_error::from_system_error gives the error
attempt_system_error(retryable) ==
    /\ h_pc = "attempt"
    /\ Caught([kind |-> "system_error", type |-> "SYSTEM", retryable |-> retryable],
              Attempt("no_reply", NoStatus, FALSE, "system_error", retryable))

\* one iteration of the loop: http.make_request throws another exception
\* (abort_requested_exception when the abort source fires, a timeout, ...)
attempt_other_exception ==
    /\ h_pc = "attempt"
    /\ Caught([kind |-> "other", type |-> "exception", retryable |-> FALSE],
              Attempt("no_reply", NoStatus, FALSE, "exception", FALSE))

\* if (!_retry_strategy.should_retry(request_ex.error(), retries)) break;
consult_retry_strategy ==
    /\ h_pc = "should_retry"
    /\ h_should_retry_calls' = Append(h_should_retry_calls, h_retries)
    /\ h_pc' = IF should_retry(h_request_ex, h_retries, h_max_retries)
               THEN "sleep" ELSE "finish"
    /\ UNCHANGED <<otherThanHttp, httpConfig, h_error_handler_calls, h_as,
                   h_as_at_entry, h_expected, h_retries, h_e, h_request_ex,
                   h_attempts, h_result>>

\* Defect: the retry counter is not advanced.
sleep_before_retry_no_increment ==
    /\ h_pc = "sleep"
    /\ h_pc' = "attempt"
    /\ UNCHANGED <<otherThanHttp, httpConfig, httpLogs, h_as, h_as_at_entry,
                   h_expected, h_e, h_request_ex, h_attempts, h_result, h_retries>>

\* co_await sleep(_retry_strategy.delay_before_retry(...)); ++retries;
\* retries is a uint32_t and stays far below its range here
sleep_before_retry ==
    /\ h_pc = "sleep"
    /\ h_retries' = h_retries + 1
    /\ h_pc' = "attempt"
    /\ UNCHANGED <<otherThanHttp, httpConfig, httpLogs, h_as, h_as_at_entry,
                   h_expected, h_e, h_request_ex, h_attempts, h_result>>

\* Defect: the stored error is thrown to the caller instead of being handed
\* to the error handler.
finish_request_rethrow ==
    /\ h_pc = "finish"
    /\ h_result' = IF h_e # NoError THEN "rethrown" ELSE "returned"
    /\ h_pc' = "done"
    /\ UNCHANGED <<otherThanHttp, httpConfig, httpLogs, h_as, h_as_at_entry,
                   h_expected, h_retries, h_e, h_request_ex, h_attempts>>

\* after the loop: if (e) { _error_handler(e); }
finish_request ==
    /\ h_pc = "finish"
    /\ IF h_e # NoError
       THEN /\ h_error_handler_calls' = Append(h_error_handler_calls, h_e)
            /\ h_result' = IF h_handler_throws THEN "error_handler_exception"
                           ELSE "returned"
       ELSE /\ h_result' = "returned"
            /\ UNCHANGED h_error_handler_calls
    /\ h_pc' = "done"
    /\ UNCHANGED <<otherThanHttp, httpConfig, h_should_retry_calls, h_as,
                   h_as_at_entry, h_expected, h_retries, h_e, h_request_ex,
                   h_attempts>>

HttpNext ==
    \/ \E expected \in Expectations, as \in {"null", "clear", "aborted"} :
          make_request(expected, as)
    \/ http_abort
    \/ \E status \in Statuses, r \in BOOLEAN, ok \in BOOLEAN :
          attempt_reply(status, r, ok)
    \/ \E r \in BOOLEAN : attempt_system_error(r)
    \/ attempt_other_exception
    \/ consult_retry_strategy
    \/ sleep_before_retry
    \/ finish_request

\* Every attempt made so far failed with a retryable error.
AllAttemptsRetryable ==
    \A i \in 1..Len(h_attempts) :
        h_attempts[i].raised # "nothing" /\ h_attempts[i].retryable

\* The sequence <<0, 1, ..., n - 1>>.
CountingFrom0(n) == [i \in 1..n |-> i - 1]

\* C6: a request failing with a retryable error on every attempt, under a
\* strategy allowing exactly N retries, is attempted exactly N+1 times,
\* should_retry is called with the counts 0..N in order, and only then the
\* error handler is invoked.
RetryExhaustion ==
    AllAttemptsRetryable =>
        /\ Len(h_attempts) <= h_max_retries + 1
        /\ h_should_retry_calls = CountingFrom0(Len(h_should_retry_calls))
        /\ Len(h_should_retry_calls) <= Len(h_attempts)
        /\ h_error_handler_calls # <<>> =>
              /\ Len(h_attempts) = h_max_retries + 1
              /\ h_should_retry_calls = CountingFrom0(h_max_retries + 1)
        /\ (h_pc = "done" /\ h_attempts # <<>>) =>
              /\ Len(h_attempts) = h_max_retries + 1
              /\ Len(h_error_handler_calls) = 1

RetryExhaustionWitness ==
    /\ h_pc = "done"
    /\ h_max_retries = 2
    /\ Len(h_attempts) = 3
    /\ AllAttemptsRetryable
    /\ h_should_retry_calls = <<0, 1, 2>>
    /\ Len(h_error_handler_calls) = 1

\* C7: when the cancellation token already signals cancellation at entry the
\* call fails with the abort error, no request attempt is made, the retry
\* strategy is not consulted and the error handler is not invoked.
AbortedAtEntry ==
    (h_pc # "idle" /\ h_as_at_entry = "aborted") =>
        /\ h_pc = "done"
        /\ h_result = "abort_requested_exception"
        /\ h_attempts = <<>>
        /\ h_should_retry_calls = <<>>
        /\ h_error_handler_calls = <<>>

AbortedAtEntryWitness ==
    /\ h_pc = "done"
    /\ h_as_at_entry = "aborted"
    /\ h_result = "abort_requested_exception"
    /\ h_attempts = <<>>

\* C8: the caller's reply handler is invoked exactly when the reply status is
\* informational or success and equals the expected status (default OK); a
\* status of another class raises an AWS exception and a success status
\* other than the expected one raises an unexpected-status error, both
\* without invoking the handler.
HandlerIffExpectedStatus ==
    \A i \in 1..Len(h_attempts) :
        LET a == h_attempts[i]
            class == a.status \div 100
            wanted == IF h_expected = NoStatus THEN 200 ELSE h_expected
        IN a.kind = "reply" =>
              /\ a.handler_invoked <=> (class \in {1, 2} /\ a.status = wanted)
              /\ class \notin {1, 2} =>
                    (a.raised = "aws_exception" /\ ~a.handler_invoked)
              /\ (class = 2 /\ a.status # wanted) =>
                    (a.raised = "unexpected_status" /\ ~a.handler_invoked)

HandlerIffExpectedStatusWitness ==
    /\ h_pc = "done"
    /\ h_expected = 204
    /\ Len(h_attempts) = 3
    /\ h_attempts[1].status = 503 /\ h_attempts[1].raised = "aws_exception"
    /\ h_attempts[2].status = 503
    /\ h_attempts[3].status = 204 /\ h_attempts[3].handler_invoked
    /\ h_result = "returned"

\* C9: when the retry loop ends with a stored error the error handler is
\* invoked exactly once with that error and the client does not raise the
\* error itself (the call returns normally unless the handler throws); when
\* an attempt succeeds the loop stops at once and the error handler is never
\* invoked.
ErrorRoutedToHandler ==
    (h_pc = "done" /\ h_attempts # <<>>) =>
        LET last == h_attempts[Len(h_attempts)]
        IN IF last.raised # "nothing"
           THEN /\ h_e # NoError
                /\ h_error_handler_calls = <<h_e>>
                /\ h_result = IF h_handler_throws
                              THEN "error_handler_exception" ELSE "returned"
           ELSE /\ h_error_handler_calls = <<>>
                /\ h_result = "returned"
                /\ Len(h_should_retry_calls) = Len(h_attempts) - 1
                /\ \A i \in 1..(Len(h_attempts) - 1) :
                      h_attempts[i].raised # "nothing"

ErrorRoutedToHandlerWitness ==
    /\ h_pc = "done"
    /\ Len(h_attempts) = 2
    /\ h_attempts[2].raised = "unexpected_status"
    /\ h_error_handler_calls = <<h_e>>
    /\ h_e.type = "unexpected_status_error"
    /\ ~h_handler_throws
    /\ h_result = "returned"

(***************************************************************************)
(* instance_profile_credentials_provider                                   *)
(***************************************************************************)
\* instance_profile_credentials_provider::session_duration, in seconds
session_duration == 21600

\* system_clock::time_point::max(), as the largest integer of the checker
TIME_POINT_MAX == 2147483647

\* The amounts of time, in seconds, that pass between two steps.
ClockSteps == {60, session_duration - 60}

NoCall == [none |-> TRUE]
NoCreds == [none |-> TRUE]

\* s3::aws_credentials as default-constructed: no key; the default of
\* expires_at is either end of the clock's range
EmptyCreds == {[access_key_id |-> "", expires_at |-> t] : t \in {0, TIME_POINT_MAX}}

\* s3::aws_credentials::operator bool: credentials are held
creds_held(c) == c.access_key_id # ""

\* instance_profile_credentials_provider::is_time_to_refresh
is_time_to_refresh(c, t) == t >= c.expires_at

\* instance_profile_credentials_provider::reload: the condition under which
\* update_credentials is called
reload_updates(c, t) == ~is_time_to_refresh(c, t) \/ ~creds_held(c)

\* instance_profile_credentials_provider::parse_creds for a well-formed body
parse_creds(t) ==
    [access_key_id |-> "AccessKeyId", expires_at |-> t + (session_duration - 60)]

CredInit ==
    /\ c_pc = "idle"
    /\ creds \in EmptyCreds
    /\ now = 0
    /\ c_token = ""
    /\ c_role = ""
    /\ c_call = NoCall
    /\ c_returned = NoCreds
    /\ c_calls = 0

CredIdle ==
    /\ c_pc = "idle"
    /\ creds = [access_key_id |-> "", expires_at |-> 0]
    /\ now = 0
    /\ c_token = ""
    /\ c_role = ""
    /\ c_call = NoCall
    /\ c_returned = NoCreds
    /\ c_calls = 0

\* get_aws_credentials up to the test in reload()
get_aws_credentials ==
    /\ c_pc = "idle"
    /\ c_calls < MaxCredSteps
    /\ c_calls' = c_calls + 1
    /\ c_call' = [due |-> is_time_to_refresh(creds, now),
                  held |-> creds_held(creds),
                  creds_at_entry |-> creds,
                  requests |-> <<>>,
                  body |-> "none",
                  swallowed |-> <<>>,
                  result |-> "pending"]
    /\ c_token' = ""
    /\ c_role' = ""
    /\ c_pc' = IF reload_updates(creds, now) THEN "token_request" ELSE "return"
    /\ UNCHANGED <<otherThanCred, creds, now, c_returned>>

LogRequest(r) == c_call' = [c_call EXCEPT !.requests = Append(@, r)]

\* update_credentials: PUT /latest/api/token.  The request either succeeds
\* and the handler stores the body, or fails and the error handler of the
\* client built in update_credentials, a function that does nothing, gets
\* the error.
token_request(ok) ==
    /\ c_pc = "token_request"
    /\ LogRequest("token")
    /\ c_token' = IF ok THEN "token" ELSE c_token
    /\ c_pc' = "role_request"
    /\ UNCHANGED <<otherThanCred, creds, now, c_role, c_returned, c_calls>>

\* update_credentials: GET /latest/meta-data/iam/security-credentials/
role_request(ok) ==
    /\ c_pc = "role_request"
    /\ LogRequest("role")
    /\ c_role' = IF ok THEN "role" ELSE c_role
    /\ c_pc' = "creds_request"
    /\ UNCHANGED <<otherThanCred, creds, now, c_token, c_returned, c_calls>>

\* update_credentials: GET /latest/meta-data/iam/security-credentials/{role};
\* the handler calls parse_creds on the body
creds_request(ok) ==
    /\ c_pc = "creds_request"
    /\ LogRequest("creds")
    /\ creds' = IF ok THEN parse_creds(now) ELSE creds
    /\ c_pc' = "return"
    /\ UNCHANGED <<otherThanCred, now, c_token, c_role, c_returned, c_calls>>

\* update_credentials: the credentials request gets a body that is not valid
\* JSON.  parse_creds throws std::runtime_error out of the reply handler;
\* do_retryable_request catches it (catch (...): an UNKNOWN error that is not
\* retryable), leaves the loop and hands the exception to the error handler
\* of the client built in update_credentials, which does nothing with it; so
\* make_request returns normally and creds is not assigned.
creds_request_malformed ==
    /\ c_pc = "creds_request"
    /\ c_call' = [c_call EXCEPT !.requests = Append(@, "creds"),
                                !.body = "malformed",
                                !.swallowed = Append(@, "parse_error")]
    /\ c_pc' = "return"
    /\ UNCHANGED <<otherThanCred, creds, now, c_token, c_role, c_returned, c_calls>>

\* get_aws_credentials: co_return creds
return_creds ==
    /\ c_pc = "return"
    /\ c_returned' = creds
    /\ c_call' = [c_call EXCEPT !.result = "returned"]
    /\ c_pc' = "idle"
    /\ UNCHANGED <<otherThanCred, creds, now, c_token, c_role, c_calls>>

\* time passes
clock_advance(d) ==
    /\ c_calls < MaxCredSteps
    /\ c_calls' = c_calls + 1
    /\ now' = now + d
    /\ UNCHANGED <<otherThanCred, c_pc, creds, c_token, c_role, c_call, c_returned>>

CredNext ==
    \/ get_aws_credentials
    \/ \E ok \in BOOLEAN : token_request(ok)
    \/ \E ok \in BOOLEAN : role_request(ok)
    \/ \E ok \in BOOLEAN : creds_request(ok)
    \/ creds_request_malformed
    \/ return_creds
    \/ \E d \in ClockSteps : clock_advance(d)

\* C10: whenever get_aws_credentials is called while the expiry time of the
\* held credentials has been reached, the three-step metadata fetch is
\* performed before credentials are returned.
ExpiredCredsRefetched ==
    (c_pc = "return" /\ c_call.due /\ c_call.held) =>
        c_call.requests = <<"token", "role", "creds">>

\* C11: a get_aws_credentials call made while non-empty credentials are held
\* and their expiry has not been reached issues no HTTP request and leaves
\* the credentials unchanged.
FreshCredsNotRefetched ==
    (c_call # NoCall /\ c_call.held /\ ~c_call.due) =>
        /\ c_call.requests = <<>>
        /\ c_call.result = "returned" => c_returned = c_call.creds_at_entry

\* C12: when the body of the credentials response is not valid JSON,
\* get_aws_credentials fails with a parse error.
MalformedBodyFails ==
    (c_call # NoCall /\ c_call.body = "malformed" /\ c_call.result # "pending")
        => c_call.result = "parse_error"

\* C39 as stated: the role request is sent only with a token obtained from a
\* successful token request, the credentials request only with a role name
\* obtained from a successful role request, and update_credentials returns
\* normally (and logs the retrieval) only if all three requests succeeded.
LaterStepOnlyAfterSuccess ==
    c_call # NoCall =>
        /\ (\E i \in DOMAIN c_call.requests : c_call.requests[i] = "role")
              => c_token = "token"
        /\ (\E i \in DOMAIN c_call.requests : c_call.requests[i] = "creds")
              => c_role = "role"
        /\ (c_pc = "return" /\ Len(c_call.requests) = 3)
              => /\ c_token = "token"
                 /\ c_role = "role"
                 /\ c_call.body # "malformed"

(***************************************************************************)
(* utils::disk_space_monitor                                               *)
(***************************************************************************)
\* What statvfs can report for the data directory: a filesystem of four
\* blocks, one to three of them free, none reserved.
Filesystems ==
    {[f_blocks |-> 4, f_bfree |-> n, f_bavail |-> n, f_frsize |-> 4096] : n \in 1..3}

\* disk_space_monitor::config as the three updateable values can read at one
\* moment; the fraction threshold_float is held in percent.
Configs ==
    {[normal_polling_interval |-> 3, high_polling_interval |-> 1, polling_interval_threshold |-> 50],
     [normal_polling_interval |-> 4, high_polling_interval |-> 2, polling_interval_threshold |-> 75]}

\* clock::now() - now at the end of an iteration, in seconds
PassedTimes == {0, 2}

Listeners == 1..NumListeners

\* _space_info before the first sample
NoSpace == [capacity |-> 0, free |-> 0, available |-> 0]

NoInterval == -1

\* get_filesystem_stats: the space_info assigned from a statvfs result
get_filesystem_stats(st) ==
    [capacity |-> st.f_blocks * st.f_frsize,
     free |-> st.f_bfree * st.f_frsize,
     available |-> st.f_bavail * st.f_frsize]

\* disk_utilization() < threshold, for a threshold in percent: the used
\* fraction of the capacity is (capacity - available) / capacity, and -1
\* when the capacity is 0.
disk_utilization_below(space, threshold) ==
    IF space.capacity = 0
    THEN TRUE
    ELSE (space.capacity - space.available) * 100 < threshold * space.capacity

get_polling_interval_inclusive(space, cfg) ==
    IF (space.capacity - space.available) * 100 <= cfg.polling_interval_threshold * space.capacity
    THEN cfg.normal_polling_interval
    ELSE cfg.high_polling_interval

\* get_polling_interval
get_polling_interval(space, cfg) ==
    IF disk_utilization_below(space, cfg.polling_interval_threshold)
    THEN cfg.normal_polling_interval
    ELSE cfg.high_polling_interval

\* _poller_fut.available(): the member holds either a ready future or the
\* future of poll()
poller_fut_available == d_poller_fut = "ready" \/ d_poll_pc = "finished"

\* the listeners the emission in progress has still to invoke
pending == {l \in d_emit : d_calls[l] = 0}

DsmInit ==
    /\ d_fs \in Filesystems
    /\ d_cfg \in Configs
    /\ d_space_info = NoSpace
    /\ d_as = FALSE
    /\ d_ext_as = FALSE
    /\ d_start_pc = "none"
    /\ d_stop_pc = "none"
    /\ d_poll_pc = "none"
    /\ d_poller_fut = "ready"
    /\ d_awaited = "none"
    /\ d_listeners = {}
    /\ d_emit = {}
    /\ d_calls = [l \in Listeners |-> 0]
    /\ d_seen = [l \in Listeners |-> NoSpace]
    /\ d_interval = NoInterval
    /\ d_choice = d_cfg
    /\ d_sampled_fs = d_fs
    /\ d_samples = 0
    /\ d_after_stop = FALSE
    /\ d_disposed_called = FALSE

DsmIdle ==
    /\ d_fs = [f_blocks |-> 4, f_bfree |-> 1, f_bavail |-> 1, f_frsize |-> 4096]
    /\ d_cfg = [normal_polling_interval |-> 3, high_polling_interval |-> 1,
                polling_interval_threshold |-> 50]
    /\ d_space_info = NoSpace
    /\ d_as = FALSE
    /\ d_ext_as = FALSE
    /\ d_start_pc = "none"
    /\ d_stop_pc = "none"
    /\ d_poll_pc = "none"
    /\ d_poller_fut = "ready"
    /\ d_awaited = "none"
    /\ d_listeners = {}
    /\ d_emit = {}
    /\ d_calls = [l \in Listeners |-> 0]
    /\ d_seen = [l \in Listeners |-> NoSpace]
    /\ d_interval = NoInterval
    /\ d_choice = d_cfg
    /\ d_sampled_fs = d_fs
    /\ d_samples = 0
    /\ d_after_stop = FALSE
    /\ d_disposed_called = FALSE

dsmEnv == <<d_fs, d_cfg>>
dsmAbort == <<d_as, d_ext_as>>
dsmLife == <<d_start_pc, d_stop_pc, d_poller_fut, d_awaited>>
dsmSignal == <<d_listeners, d_emit, d_calls, d_seen, d_disposed_called>>
dsmSleep == <<d_interval, d_choice>>

\* start(), up to the co_await of get_filesystem_stats().  A monitor is
\* started at most once, and not after stop() was called.
start_begin ==
    /\ d_start_pc = "none"
    /\ d_stop_pc = "none"
    /\ d_start_pc' = "sampling"
    /\ UNCHANGED <<otherThanDsm, dsmEnv, dsmAbort, dsmSignal, dsmSleep, d_space_info,
                   d_stop_pc, d_poll_pc, d_poller_fut, d_awaited, d_sampled_fs, d_samples, d_after_stop>>

start_unsampled ==
    /\ d_start_pc = "sampling"
    /\ d_sampled_fs' = d_fs
    /\ d_start_pc' = "done"
    /\ d_poll_pc' = "loop"
    /\ d_poller_fut' = "poller"
    /\ UNCHANGED <<otherThanDsm, dsmEnv, dsmAbort, dsmSignal, dsmSleep, d_space_info,
                   d_stop_pc, d_awaited, d_sampled_fs, d_samples, d_after_stop>>

\* start(): statvfs answers, get_filesystem_stats assigns _space_info, and
\* _poller_fut = poll() launches the polling thread.
start_sampled ==
    /\ d_start_pc = "sampling"
    /\ d_space_info' = get_filesystem_stats(d_fs)
    /\ d_sampled_fs' = d_fs
    /\ d_start_pc' = "done"
    /\ d_poll_pc' = "loop"
    /\ d_poller_fut' = "poller"
    /\ UNCHANGED <<otherThanDsm, dsmEnv, dsmAbort, dsmSignal, dsmSleep,
                   d_stop_pc, d_awaited, d_sampled_fs, d_samples, d_after_stop>>

\* start(): statvfs fails, the exception leaves start() and no poller is
\* launched.
start_fails ==
    /\ d_start_pc = "sampling"
    /\ d_start_pc' = "failed"
    /\ UNCHANGED <<otherThanDsm, dsmEnv, dsmAbort, dsmSignal, dsmSleep, d_space_info,
                   d_stop_pc, d_poll_pc, d_poller_fut, d_awaited, d_sampled_fs, d_samples, d_after_stop>>

\* poll(): while (!_as.abort_requested()), then get_filesystem_stats() is
\* called.
poll_loop_check ==
    /\ d_poll_pc = "loop"
    /\ d_as \/ d_samples < MaxPolls
    /\ d_poll_pc' = IF d_as THEN "finished" ELSE "sampling"
    /\ UNCHANGED <<otherThanDsm, dsmEnv, dsmAbort, dsmLife, dsmSignal, dsmSleep,
                   d_space_info, d_sampled_fs, d_samples, d_after_stop>>

poll_sampled_not_stored ==
    /\ d_poll_pc = "sampling"
    /\ d_sampled_fs' = d_fs
    /\ d_samples' = d_samples + 1
    /\ d_emit' = d_listeners
    /\ d_calls' = [l \in Listeners |-> 0]
    /\ d_seen' = [l \in Listeners |-> NoSpace]
    /\ d_interval' = NoInterval
    /\ d_after_stop' = (d_after_stop \/ d_stop_pc = "done")
    /\ d_poll_pc' = "notify"
    /\ UNCHANGED <<otherThanDsm, dsmEnv, dsmAbort, dsmLife, d_space_info, d_listeners,
                   d_disposed_called, d_choice>>

\* poll(): get_filesystem_stats().get() returns with _space_info assigned,
\* and _signal_source() starts to invoke the slots connected at this moment.
poll_sampled ==
    /\ d_poll_pc = "sampling"
    /\ d_space_info' = get_filesystem_stats(d_fs)
    /\ d_sampled_fs' = d_fs
    /\ d_samples' = d_samples + 1
    /\ d_emit' = d_listeners
    /\ d_calls' = [l \in Listeners |-> 0]
    /\ d_seen' = [l \in Listeners |-> NoSpace]
    /\ d_interval' = NoInterval
    /\ d_after_stop' = (d_after_stop \/ d_stop_pc = "done")
    /\ d_poll_pc' = "notify"
    /\ UNCHANGED <<otherThanDsm, dsmEnv, dsmAbort, dsmLife, d_listeners,
                   d_disposed_called, d_choice>>

poll_sample_fails_uncaught ==
    /\ d_poll_pc = "sampling"
    /\ d_poll_pc' = "threw"
    /\ UNCHANGED <<otherThanDsm, dsmEnv, dsmAbort, dsmLife, dsmSignal, dsmSleep,
                   d_space_info, d_sampled_fs, d_samples, d_after_stop>>

\* poll(): statvfs fails; catch (...) logs the error and the thread ends.
poll_sample_fails ==
    /\ d_poll_pc = "sampling"
    /\ d_poll_pc' = "finished"
    /\ UNCHANGED <<otherThanDsm, dsmEnv, dsmAbort, dsmLife, dsmSignal, dsmSleep,
                   d_space_info, d_sampled_fs, d_samples, d_after_stop>>

\* _signal_source(): the slot of listener l runs callback(*this).get(); the
\* callback reads space().  When the callback fails the exception leaves the
\* emission, catch (...) logs it and the thread ends.
poll_notify(l, ok) ==
    /\ d_poll_pc = "notify"
    /\ l \in pending
    /\ d_calls' = [d_calls EXCEPT ![l] = @ + 1]
    /\ d_seen' = [d_seen EXCEPT ![l] = d_space_info]
    /\ d_disposed_called' = (d_disposed_called \/ l \notin d_listeners)
    /\ d_after_stop' = (d_after_stop \/ d_stop_pc = "done")
    /\ d_poll_pc' = IF ok THEN "notify" ELSE "finished"
    /\ UNCHANGED <<otherThanDsm, dsmEnv, dsmAbort, dsmLife, dsmSleep, d_listeners,
                   d_emit, d_space_info, d_sampled_fs, d_samples>>

\* poll(): every slot has run; passed and interval are computed, and the
\* thread sleeps for interval - passed when interval > passed.
poll_choose_interval(passed) ==
    /\ d_poll_pc = "notify"
    /\ pending = {}
    /\ d_interval' = get_polling_interval(d_space_info, d_cfg)
    /\ d_choice' = d_cfg
    /\ d_poll_pc' = IF d_interval' > passed THEN "sleep" ELSE "loop"
    /\ UNCHANGED <<otherThanDsm, dsmEnv, dsmAbort, dsmLife, dsmSignal,
                   d_space_info, d_sampled_fs, d_samples, d_after_stop>>

\* sleep_abortable: the timer expires
poll_wake ==
    /\ d_poll_pc = "sleep"
    /\ ~d_as
    /\ d_poll_pc' = "loop"
    /\ UNCHANGED <<otherThanDsm, dsmEnv, dsmAbort, dsmLife, dsmSignal, dsmSleep,
                   d_space_info, d_sampled_fs, d_samples, d_after_stop>>

\* sleep_abortable throws sleep_aborted; catch (const sleep_aborted&) ends
\* the thread.
poll_sleep_aborted ==
    /\ d_poll_pc = "sleep"
    /\ d_as
    /\ d_poll_pc' = "finished"
    /\ UNCHANGED <<otherThanDsm, dsmEnv, dsmAbort, dsmLife, dsmSignal, dsmSleep,
                   d_space_info, d_sampled_fs, d_samples, d_after_stop>>

\* stop(): _as.request_abort(), then std::exchange(_poller_fut,
\* make_ready_future()) and the co_await of the future taken out.
stop_begin ==
    /\ d_stop_pc = "none"
    /\ d_start_pc # "sampling"
    /\ d_as' = TRUE
    /\ d_awaited' = d_poller_fut
    /\ d_poller_fut' = "ready"
    /\ d_stop_pc' = "waiting"
    /\ UNCHANGED <<otherThanDsm, dsmEnv, dsmSignal, dsmSleep, d_ext_as, d_space_info,
                   d_start_pc, d_poll_pc, d_sampled_fs, d_samples,
                   d_after_stop>>

stop_complete_unawaited ==
    /\ d_stop_pc = "waiting"
    /\ d_stop_pc' = "done"
    /\ UNCHANGED <<otherThanDsm, dsmEnv, dsmAbort, dsmSignal, dsmSleep, d_space_info,
                   d_start_pc, d_poll_pc, d_poller_fut, d_awaited, d_sampled_fs, d_samples, d_after_stop>>

\* stop(): the awaited future resolves and stop() completes, with the
\* exception of the future if it holds one
stop_complete ==
    /\ d_stop_pc = "waiting"
    /\ d_awaited = "ready" \/ d_poll_pc \in {"finished", "threw"}
    /\ d_stop_pc' = IF d_awaited = "poller" /\ d_poll_pc = "threw"
                    THEN "failed" ELSE "done"
    /\ UNCHANGED <<otherThanDsm, dsmEnv, dsmAbort, dsmSignal, dsmSleep, d_space_info,
                   d_start_pc, d_poll_pc, d_poller_fut, d_awaited, d_sampled_fs, d_samples, d_after_stop>>

\* The abort source given to the constructor is triggered; the subscription
\* _as_sub calls _as.request_abort().
external_abort ==
    /\ ~d_ext_as
    /\ d_ext_as' = TRUE
    /\ d_as' = TRUE
    /\ UNCHANGED <<otherThanDsm, dsmEnv, dsmLife, dsmSignal, dsmSleep, d_space_info,
                   d_poll_pc, d_sampled_fs, d_samples, d_after_stop>>

\* listen(callback): _signal_source.connect
listen(l) ==
    /\ l \notin d_listeners
    /\ d_listeners' = d_listeners \cup {l}
    /\ UNCHANGED <<otherThanDsm, dsmEnv, dsmAbort, dsmLife, dsmSleep, d_emit, d_calls,
                   d_seen, d_disposed_called, d_space_info, d_poll_pc, d_sampled_fs, d_samples, d_after_stop>>

\* The connection listen returned is disconnected or destroyed; a slot that
\* is disconnected is not invoked any more, also by an emission in progress.
dispose(l) ==
    /\ l \in d_listeners
    /\ d_listeners' = d_listeners \ {l}
    /\ d_emit' = d_emit \ {l}
    /\ UNCHANGED <<otherThanDsm, dsmEnv, dsmAbort, dsmLife, dsmSleep, d_calls,
                   d_seen, d_disposed_called, d_space_info, d_poll_pc, d_sampled_fs, d_samples, d_after_stop>>

\* files are written or removed in the data directory
fs_change(st) ==
    /\ st # d_fs
    /\ d_fs' = st
    /\ UNCHANGED <<otherThanDsm, d_cfg, dsmAbort, dsmLife, dsmSignal, dsmSleep,
                   d_space_info, d_poll_pc, d_sampled_fs, d_samples,
                   d_after_stop>>

\* the updateable configuration values change
set_config(c) ==
    /\ c # d_cfg
    /\ d_cfg' = c
    /\ UNCHANGED <<otherThanDsm, d_fs, dsmAbort, dsmLife, dsmSignal, dsmSleep,
                   d_space_info, d_poll_pc, d_sampled_fs, d_samples,
                   d_after_stop>>

DsmNext ==
    \/ start_begin
    \/ start_sampled
    \/ start_fails
    \/ poll_loop_check
    \/ poll_sampled
    \/ poll_sample_fails
    \/ \E l \in Listeners, ok \in BOOLEAN : poll_notify(l, ok)
    \/ \E passed \in PassedTimes : poll_choose_interval(passed)
    \/ poll_wake
    \/ poll_sleep_aborted
    \/ stop_begin
    \/ stop_complete
    \/ external_abort
    \/ \E l \in Listeners : listen(l)
    \/ \E l \in Listeners : dispose(l)
    \/ \E st \in Filesystems : fs_change(st)
    \/ \E c \in Configs : set_config(c)

\* C13: when start() has completed and no background poll has sampled yet,
\* space() and disk_utilization() return the sample start() took, which
\* equals the capacity, free and available figures the filesystem had then.
StartSampleTaken ==
    (d_start_pc = "done" /\ d_samples = 0) =>
        d_space_info = [capacity |-> d_sampled_fs.f_blocks * d_sampled_fs.f_frsize,
                        free |-> d_sampled_fs.f_bfree * d_sampled_fs.f_frsize,
                        available |-> d_sampled_fs.f_bavail * d_sampled_fs.f_frsize]

StartSampleTakenWitness ==
    /\ d_start_pc = "done"
    /\ d_samples = 0
    /\ d_poll_pc = "sampling"
    /\ d_fs # d_sampled_fs

\* C14: after stop() has completed, also when the external abort source was
\* triggered, the polling task has finished: no sample was taken and no
\* listener was invoked since, and _poller_fut is available.
StopEndsPolling ==
    d_stop_pc = "done" =>
        /\ d_poll_pc \in {"none", "finished"}
        /\ ~d_after_stop
        /\ poller_fut_available

StopEndsPollingWitness ==
    /\ d_stop_pc = "done"
    /\ d_awaited = "poller"
    /\ d_poll_pc = "finished"
    /\ d_samples > 0
    /\ d_ext_as

\* C15: the interval chosen after a poll is the normal polling interval when
\* the sampled utilization is strictly below the threshold and the high
\* polling interval otherwise, with the configuration read at that moment.
IntervalByThreshold ==
    d_interval # NoInterval =>
        d_interval =
            IF (d_sampled_fs.f_blocks - d_sampled_fs.f_bavail) * 100
                   < d_choice.polling_interval_threshold * d_sampled_fs.f_blocks
            THEN d_choice.normal_polling_interval
            ELSE d_choice.high_polling_interval

IntervalByThresholdWitness ==
    /\ d_interval # NoInterval
    /\ (d_sampled_fs.f_blocks - d_sampled_fs.f_bavail) * 100
           = d_choice.polling_interval_threshold * d_sampled_fs.f_blocks
    /\ d_interval = d_choice.high_polling_interval
    /\ d_cfg # d_choice

\* C16: in every iteration each listener registered when the sample was
\* stored is invoked exactly once before the loop sleeps, and observes the
\* sample of that iteration; a listener whose connection was disposed is not
\* invoked.
ListenersSeeCurrentSample ==
    /\ \A l \in Listeners :
           /\ d_calls[l] <= 1
           /\ d_calls[l] = 1 => d_seen[l] = get_filesystem_stats(d_sampled_fs)
    /\ (d_poll_pc \in {"sleep", "loop"} /\ d_samples > 0) =>
           \A l \in d_emit : d_calls[l] = 1
    /\ ~d_disposed_called

ListenersSeeCurrentSampleWitness ==
    /\ d_poll_pc = "sleep"
    /\ d_emit # {}
    /\ d_emit # d_listeners
    /\ d_samples >= 2

\* C32: the thread of poll() never ends with an exception and stop() never
\* fails; once the thread has ended, for whatever reason, no sample is taken
\* and no listener is called any more.
PollEndsWithoutError ==
    [][ /\ d_poll_pc' # "threw"
        /\ d_stop_pc' # "failed"
        /\ d_poll_pc = "finished" =>
              /\ d_poll_pc' = "finished"
              /\ d_samples' = d_samples
              /\ d_calls' = d_calls
              /\ d_space_info' = d_space_info ]_dsmVars

\* a listener failed after a sample, which ended the thread before it
\* computed an interval, and stop() has completed
PollEndsWithoutErrorWitness ==
    /\ d_poll_pc = "finished"
    /\ d_samples > 0
    /\ d_interval = NoInterval
    /\ \E l \in Listeners : d_calls[l] > 0
    /\ d_stop_pc = "done"
    /\ d_awaited = "poller"

(***************************************************************************)
(* alternator::consumed_capacity_counter                                   *)
(***************************************************************************)
\* 0.5, held in tenths of a capacity unit as every CapacityUnits number is
INTERNAL_UNIT_MULTIPLIER == 5
KB == 1024
RCU_BLOCK_SIZE_LENGTH == 4 * KB
WCU_BLOCK_SIZE_LENGTH == 1 * KB

\* What rjson::find(request, "ReturnConsumedCapacity") can give: nothing, a
\* string, or a value that is not a string.
ReturnConsumedCapacityValues ==
    {[kind |-> "absent"], [kind |-> "number"], [kind |-> "null"]}
        \cup {[kind |-> "string", value |-> s] : s \in {"TOTAL", "INDEXES", "NONE", "total"}}

\* the byte counts given to operator+=
ByteSizes == {0, 1, 1023, 1024, 4095, 4096, 4097}

NoUnits == [none |-> TRUE]
NoResponse == [pending |-> TRUE]
NoConsumedCapacity == [absent |-> TRUE]

should_add_capacity_unless_none(request) ==
    IF request.kind = "absent"
    THEN [error |-> "none", add |-> FALSE]
    ELSE IF request.kind # "string"
    THEN [error |-> "validation", add |-> FALSE]
    ELSE IF request.value = "INDEXES"
    THEN [error |-> "validation", add |-> FALSE]
    ELSE [error |-> "none", add |-> request.value # "NONE"]

\* should_add_capacity: what it returns, or the api_error it throws
should_add_capacity(request) ==
    IF request.kind = "absent"
    THEN [error |-> "none", add |-> FALSE]
    ELSE IF request.kind # "string"
    THEN [error |-> "validation", add |-> FALSE]
    ELSE IF request.value = "INDEXES"
    THEN [error |-> "validation", add |-> FALSE]
    ELSE [error |-> "none", add |-> request.value = "TOTAL"]

calculate_internal_units_truncating(unit_block_size, total_bytes, is_quorum) ==
    LET internal_units == total_bytes \div unit_block_size
    IN  IF is_quorum THEN internal_units * 2 ELSE internal_units

\* calculate_internal_units, in uint64_t; the byte totals of the model are
\* far from the values where total_bytes + unit_block_size - 1 wraps.
calculate_internal_units(unit_block_size, total_bytes, is_quorum) ==
    LET internal_units == (total_bytes + unit_block_size - 1) \div unit_block_size
    IN  IF is_quorum THEN internal_units * 2 ELSE internal_units

\* rcu_consumed_capacity_counter::get_internal_units and
\* wcu_consumed_capacity_counter::get_internal_units
get_internal_units(counter, total_bytes, is_quorum) ==
    IF counter = "rcu"
    THEN calculate_internal_units(RCU_BLOCK_SIZE_LENGTH, total_bytes, is_quorum)
    ELSE calculate_internal_units(WCU_BLOCK_SIZE_LENGTH, total_bytes, TRUE)

\* get_consumed_capacity_units, in tenths
get_consumed_capacity_units(counter, total_bytes, is_quorum) ==
    get_internal_units(counter, total_bytes, is_quorum) * INTERNAL_UNIT_MULTIPLIER

CcInit ==
    /\ cc_pc = "none"
    /\ cc_request = [kind |-> "absent"]
    /\ cc_counter = "rcu"
    /\ cc_is_quorum = FALSE
    /\ cc_should_add = FALSE
    /\ cc_total_bytes = 0
    /\ cc_adds = 0
    /\ cc_metric = NoUnits
    /\ cc_response = NoResponse
    /\ cc_response_bytes = 0

CcIdle ==
    /\ cc_pc = "none"
    /\ cc_request = [kind |-> "absent"]
    /\ cc_counter = "rcu"
    /\ cc_is_quorum = FALSE
    /\ cc_should_add = FALSE
    /\ cc_total_bytes = 0
    /\ cc_adds = 0
    /\ cc_metric = NoUnits
    /\ cc_response = NoResponse
    /\ cc_response_bytes = 0

ccCounter == <<cc_pc, cc_request, cc_counter, cc_is_quorum, cc_should_add>>
ccOutputs == <<cc_metric, cc_response, cc_response_bytes>>

\* rcu_consumed_capacity_counter(request, is_quorum)
rcu_consumed_capacity_counter(request, is_quorum) ==
    /\ cc_pc = "none"
    /\ cc_request' = request
    /\ cc_counter' = "rcu"
    /\ cc_is_quorum' = is_quorum
    /\ cc_should_add' = should_add_capacity(request).add
    /\ cc_pc' = IF should_add_capacity(request).error = "none"
                THEN "live" ELSE "validation_error"
    /\ UNCHANGED <<otherThanCc, ccOutputs, cc_total_bytes, cc_adds>>

\* wcu_consumed_capacity_counter(request)
wcu_consumed_capacity_counter(request) ==
    /\ cc_pc = "none"
    /\ cc_request' = request
    /\ cc_counter' = "wcu"
    /\ cc_is_quorum' = FALSE
    /\ cc_should_add' = should_add_capacity(request).add
    /\ cc_pc' = IF should_add_capacity(request).error = "none"
                THEN "live" ELSE "validation_error"
    /\ UNCHANGED <<otherThanCc, ccOutputs, cc_total_bytes, cc_adds>>

\* operator+=(units)
add_bytes(units) ==
    /\ cc_pc = "live"
    /\ cc_adds < MaxAdds
    /\ cc_adds' = cc_adds + 1
    /\ cc_total_bytes' = cc_total_bytes + units
    /\ UNCHANGED <<otherThanCc, ccCounter, ccOutputs>>

\* update_metric: metric.add_units(get_internal_units())
update_metric ==
    /\ cc_pc = "live"
    /\ cc_metric' = [bytes |-> cc_total_bytes,
                     units |-> get_internal_units(cc_counter, cc_total_bytes, cc_is_quorum)]
    /\ UNCHANGED <<otherThanCc, ccCounter, cc_total_bytes, cc_adds, cc_response,
                   cc_response_bytes>>

\* add_consumed_capacity_to_response_if_needed(response)
add_consumed_capacity_to_response_if_needed ==
    /\ cc_pc = "live"
    /\ cc_response' =
           IF cc_should_add
           THEN [ConsumedCapacity |->
                    [CapacityUnits |->
                        get_consumed_capacity_units(cc_counter, cc_total_bytes, cc_is_quorum)]]
           ELSE [ConsumedCapacity |-> NoConsumedCapacity]
    /\ cc_response_bytes' = cc_total_bytes
    /\ UNCHANGED <<otherThanCc, ccCounter, cc_total_bytes, cc_adds, cc_metric>>

CcNext ==
    \/ \E request \in ReturnConsumedCapacityValues, is_quorum \in BOOLEAN :
           rcu_consumed_capacity_counter(request, is_quorum)
    \/ \E request \in ReturnConsumedCapacityValues : wcu_consumed_capacity_counter(request)
    \/ \E units \in ByteSizes : add_bytes(units)
    \/ update_metric
    \/ add_consumed_capacity_to_response_if_needed

CeilDiv(b, n) == IF b % n = 0 THEN b \div n ELSE (b \div n) + 1

\* the internal units the rounding rule gives a counter for b bytes
RuleUnits(b) ==
    IF cc_counter = "rcu"
    THEN (IF cc_is_quorum THEN 2 ELSE 1) * CeilDiv(b, 4096)
    ELSE 2 * CeilDiv(b, 1024)

HasConsumedCapacity ==
    /\ cc_response # NoResponse
    /\ cc_response.ConsumedCapacity # NoConsumedCapacity

\* C17: for every byte total b the read counter's internal units are
\* ceil(b/4096), doubled exactly for a quorum read, the write counter's are
\* 2*ceil(b/1024), and the reported capacity units are the internal units
\* times 0.5.
CapacityUnitsRounding ==
    /\ cc_metric # NoUnits => cc_metric.units = RuleUnits(cc_metric.bytes)
    /\ HasConsumedCapacity =>
           cc_response.ConsumedCapacity.CapacityUnits * 2 = RuleUnits(cc_response_bytes) * 10

CapacityUnitsRoundingWitness ==
    /\ HasConsumedCapacity
    /\ cc_counter = "rcu"
    /\ ~cc_is_quorum
    /\ cc_response_bytes = 4097
    /\ cc_response.ConsumedCapacity.CapacityUnits = 10
    /\ cc_metric # NoUnits
    /\ cc_metric.bytes = 4096
    /\ cc_metric.units = 1

IsString(request, s) == request.kind = "string" /\ request.value = s

\* C18 as stated: ConsumedCapacity is added exactly when
\* ReturnConsumedCapacity is "TOTAL"; an absent field or any other value adds
\* nothing and raises no error, except "INDEXES", which is rejected with a
\* validation error.
OnlyIndexesRejected ==
    /\ cc_response # NoResponse => (HasConsumedCapacity <=> IsString(cc_request, "TOTAL"))
    /\ cc_pc = "validation_error" => IsString(cc_request, "INDEXES")
    /\ (cc_pc # "none" /\ IsString(cc_request, "INDEXES")) => cc_pc = "validation_error"

\* C18 amended: ConsumedCapacity is added exactly when ReturnConsumedCapacity
\* is the string "TOTAL"; an absent field or any other string adds nothing
\* and raises no error, except "INDEXES"; "INDEXES" and every value that is
\* not a string are rejected with a validation error.
IndexesAndNonStringsRejected ==
    /\ cc_response # NoResponse => (HasConsumedCapacity <=> IsString(cc_request, "TOTAL"))
    /\ cc_pc = "validation_error" =>
           (IsString(cc_request, "INDEXES") \/ cc_request.kind \notin {"absent", "string"})
    /\ (cc_pc # "none" /\ (IsString(cc_request, "INDEXES")
                             \/ cc_request.kind \notin {"absent", "string"}))
           => cc_pc = "validation_error"

IndexesAndNonStringsRejectedWitness ==
    /\ cc_response # NoResponse
    /\ ~HasConsumedCapacity
    /\ IsString(cc_request, "total")
    /\ cc_total_bytes > 0

(***************************************************************************)
(* locator::local_strategy                                                 *)
(***************************************************************************)
\* the dht::token values given to calculate_natural_endpoints
Tokens == {-1, 0, 1}

\* token_metadata: the hosts of its topology and topology::my_host_id()
TokenMetadatas ==
    {[hosts |-> hs, my_host_id |-> h] : hs \in SUBSET Hosts, h \in Hosts}

\* std::optional<std::unordered_set<sstring>>
NullOpt == [has_value |-> FALSE]
SomeOptions(names) == [has_value |-> TRUE, value |-> names]

NoLsCall == [op |-> "none"]

calculate_natural_endpoints_all_hosts(t, tm) == tm.hosts \cup {tm.my_host_id}

\* calculate_natural_endpoints: host_id_set{tm.get_topology().my_host_id()}
calculate_natural_endpoints(t, tm) == {tm.my_host_id}

\* get_replication_factor
get_replication_factor(tm) == 1

\* recognized_options: `return {};` value-initializes the std::optional that
\* is returned, which is then disengaged.
recognized_options(topology) == NullOpt

\* validate_options: the exception thrown, or "none"
validate_options(_uses_tablets) ==
    IF _uses_tablets THEN "configuration_exception" ELSE "none"

\* sanity_check_read_replicas: whether a message is returned
sanity_check_read_replicas(read_replicas) == Cardinality(read_replicas) > 1

LsInit ==
    /\ ls_tm \in TokenMetadatas
    /\ ls_uses_tablets \in BOOLEAN
    /\ ls_result = NoLsCall

LsIdle ==
    /\ ls_tm = [hosts |-> {}, my_host_id |-> 1]
    /\ ls_uses_tablets = FALSE
    /\ ls_result = NoLsCall

calculate_natural_endpoints_call(t) ==
    /\ ls_result' = [op |-> "calculate_natural_endpoints", token |-> t, tm |-> ls_tm,
                     endpoints |-> calculate_natural_endpoints(t, ls_tm)]
    /\ UNCHANGED <<otherThanLs, ls_tm, ls_uses_tablets>>

get_replication_factor_call ==
    /\ ls_result' = [op |-> "get_replication_factor", tm |-> ls_tm,
                     factor |-> get_replication_factor(ls_tm)]
    /\ UNCHANGED <<otherThanLs, ls_tm, ls_uses_tablets>>

recognized_options_call ==
    /\ ls_result' = [op |-> "recognized_options", tm |-> ls_tm,
                     options |-> recognized_options(ls_tm)]
    /\ UNCHANGED <<otherThanLs, ls_tm, ls_uses_tablets>>

validate_options_call ==
    /\ ls_result' = [op |-> "validate_options", tm |-> ls_tm,
                     error |-> validate_options(ls_uses_tablets)]
    /\ UNCHANGED <<otherThanLs, ls_tm, ls_uses_tablets>>

sanity_check_read_replicas_call(read_replicas) ==
    /\ ls_result' = [op |-> "sanity_check_read_replicas", tm |-> ls_tm,
                     replicas |-> read_replicas,
                     message |-> sanity_check_read_replicas(read_replicas)]
    /\ UNCHANGED <<otherThanLs, ls_tm, ls_uses_tablets>>

\* a host joins or leaves the topology held by the token_metadata
ls_topology_change(h) ==
    /\ ls_tm' = [ls_tm EXCEPT !.hosts =
                     IF h \in @ THEN @ \ {h} ELSE @ \cup {h}]
    /\ UNCHANGED <<otherThanLs, ls_uses_tablets, ls_result>>

LsNext ==
    \/ \E t \in Tokens : calculate_natural_endpoints_call(t)
    \/ get_replication_factor_call
    \/ recognized_options_call
    \/ validate_options_call
    \/ \E rs \in SUBSET Hosts : sanity_check_read_replicas_call(rs)
    \/ \E h \in Hosts : ls_topology_change(h)

\* C19: for every token and every topology calculate_natural_endpoints
\* returns a set with exactly one element, the local node's own host id, and
\* get_replication_factor returns 1.
NaturalEndpointsLocalOnly ==
    /\ ls_result.op = "calculate_natural_endpoints" =>
           /\ Cardinality(ls_result.endpoints) = 1
           /\ \A h \in ls_result.endpoints : h = ls_result.tm.my_host_id
    /\ ls_result.op = "get_replication_factor" => ls_result.factor = 1

NaturalEndpointsLocalOnlyWitness ==
    /\ ls_result.op = "calculate_natural_endpoints"
    /\ ls_result.token = -1
    /\ ls_result.tm.hosts = Hosts
    /\ ls_result.endpoints = {ls_result.tm.my_host_id}

\* C20: recognized_options returns a present, empty set of option names,
\* not an absent value.
RecognizedOptionsPresentEmpty ==
    ls_result.op = "recognized_options" => ls_result.options = SomeOptions({})

(***************************************************************************)
(* delegating_reader_v2                                                    *)
(***************************************************************************)
\* the fragments the underlying reader produces, in order
Stream == [i \in 1..StreamLen |-> i]

\* flat_mutation_reader_v2::impl::is_buffer_full
is_buffer_full(buf) == Len(buf) >= MaxBufferLen

ReaderInit ==
    /\ r_owned \in BOOLEAN
    /\ r_buf = <<>>
    /\ r_eos = FALSE
    /\ r_pc = "idle"
    /\ r_delivered = <<>>
    /\ u_pos \in 0..1
    /\ u_buf = SubSeq(Stream, 1, u_pos)
    /\ u_eos = FALSE
    /\ u_closes = 0
    /\ r_last = "none"

ReaderIdle ==
    /\ r_owned = FALSE
    /\ r_buf = <<>>
    /\ r_eos = FALSE
    /\ r_pc = "idle"
    /\ r_delivered = <<>>
    /\ u_pos = 0
    /\ u_buf = <<>>
    /\ u_eos = FALSE
    /\ u_closes = 0
    /\ r_last = "none"

\* fill_buffer, up to the continuation: nothing when the buffer is full,
\* else _underlying->fill_buffer(), which buffers k more fragments and
\* reports the end of the stream (e) only when it has produced them all.
fill_buffer(k, e) ==
    /\ r_pc = "idle"
    /\ IF is_buffer_full(r_buf)
       THEN UNCHANGED <<r_pc, u_pos, u_buf, u_eos>>
       ELSE /\ u_pos + k <= StreamLen
            /\ u_eos => k = 0
            /\ u_pos' = u_pos + k
            /\ u_buf' = u_buf \o SubSeq(Stream, u_pos + 1, u_pos + k)
            /\ u_eos' = (u_eos \/ (e /\ u_pos' = StreamLen))
            /\ r_pc' = "filling"
    /\ r_last' = "other"
    /\ UNCHANGED <<otherThanReader, r_owned, r_buf, r_eos, r_delivered, u_closes>>

fill_buffer_then_replacing ==
    /\ r_pc = "filling"
    /\ r_eos' = u_eos
    /\ r_buf' = u_buf
    /\ u_buf' = <<>>
    /\ r_pc' = "idle"
    /\ r_last' = "other"
    /\ UNCHANGED <<otherThanReader, r_owned, r_delivered, u_pos, u_eos, u_closes>>

\* fill_buffer, the continuation: _end_of_stream is copied and
\* move_buffer_content_to appends the underlying buffer to this buffer.
fill_buffer_then ==
    /\ r_pc = "filling"
    /\ r_eos' = u_eos
    /\ r_buf' = r_buf \o u_buf
    /\ u_buf' = <<>>
    /\ r_pc' = "idle"
    /\ r_last' = "other"
    /\ UNCHANGED <<otherThanReader, r_owned, r_delivered, u_pos, u_eos, u_closes>>

\* the consumer pops the first fragment of the buffer
pop_mutation_fragment ==
    /\ r_pc # "closed"
    /\ r_buf # <<>>
    /\ r_delivered' = Append(r_delivered, Head(r_buf))
    /\ r_buf' = Tail(r_buf)
    /\ r_last' = "other"
    /\ UNCHANGED <<otherThanReader, r_owned, r_eos, r_pc, u_pos, u_buf, u_eos, u_closes>>

close_unconditional ==
    /\ r_pc = "idle"
    /\ r_pc' = "closed"
    /\ u_closes' = u_closes + 1
    /\ r_last' = "other"
    /\ UNCHANGED <<otherThanReader, r_owned, r_buf, r_eos, r_delivered, u_pos, u_buf, u_eos>>

\* close: _underlying_holder ? _underlying_holder->close() : ready
close ==
    /\ r_pc = "idle"
    /\ r_pc' = "closed"
    /\ u_closes' = IF r_owned THEN u_closes + 1 ELSE u_closes
    /\ r_last' = "other"
    /\ UNCHANGED <<otherThanReader, r_owned, r_buf, r_eos, r_delivered, u_pos, u_buf, u_eos>>

\* mutation_fragment_v2::is_partition_start: the stream is made of
\* partitions of two fragments, the first of which starts the partition
is_partition_start(f) == f % 2 = 1

\* flat_mutation_reader_v2::impl::clear_buffer_to_next_partition: the
\* fragments before the first partition start of the buffer are dropped
clear_buffer_to_next_partition(buf) ==
    LET starts == {i \in 1..Len(buf) : is_partition_start(buf[i])}
    IN IF starts = {} THEN <<>>
       ELSE SubSeq(buf, CHOOSE i \in starts : \A j \in starts : i <= j, Len(buf))

\* the positions of the stream at which a partition starts, and its end
partition_boundaries ==
    {p \in 0..StreamLen : p = StreamLen \/ is_partition_start(Stream[p + 1])}

\* _underlying->next_partition(): the underlying reader drops what it has
\* buffered of the current partition and, when its buffer is empty then,
\* moves on to the next partition
underlying_next_partition(e) ==
    /\ u_buf' = clear_buffer_to_next_partition(u_buf)
    /\ u_pos' = IF u_buf' # <<>> THEN u_pos
                ELSE CHOOSE p \in partition_boundaries :
                        /\ p >= u_pos
                        /\ \A q \in partition_boundaries : q >= u_pos => p <= q
    /\ u_eos' = (u_eos \/ (e /\ u_pos' = StreamLen))

next_partition_forwarding(e) ==
    /\ r_pc = "idle"
    /\ r_buf' = clear_buffer_to_next_partition(r_buf)
    /\ underlying_next_partition(e)
    /\ r_last' = "next_partition_forwarded"
    /\ r_eos' = (u_eos' /\ u_buf' = <<>>)
    /\ UNCHANGED <<otherThanReader, r_owned, r_pc, r_delivered, u_closes>>

\* next_partition: clear_buffer_to_next_partition(), then
\* _underlying->next_partition() if the buffer is empty, then
\* _end_of_stream is set in the continuation
next_partition(e) ==
    /\ r_pc = "idle"
    /\ r_buf' = clear_buffer_to_next_partition(r_buf)
    /\ IF r_buf' = <<>>
       THEN /\ underlying_next_partition(e)
            /\ r_last' = "next_partition_forwarded"
       ELSE /\ UNCHANGED <<u_buf, u_pos, u_eos>>
            /\ r_last' = "next_partition_local"
    /\ r_eos' = (u_eos' /\ u_buf' = <<>>)
    /\ UNCHANGED <<otherThanReader, r_owned, r_pc, r_delivered, u_closes>>

\* fast_forward_to(const dht::partition_range&): _end_of_stream = false,
\* clear_buffer(), then _underlying->fast_forward_to(pr), which empties the
\* underlying buffer and moves the underlying reader to the start of pr,
\* which is not before the position it has reached
fast_forward_to(p) ==
    /\ r_pc = "idle"
    /\ p >= u_pos
    /\ r_eos' = FALSE
    /\ r_buf' = <<>>
    /\ u_buf' = <<>>
    /\ u_eos' = FALSE
    /\ u_pos' = p
    /\ r_last' = "fast_forward_to"
    /\ UNCHANGED <<otherThanReader, r_owned, r_pc, r_delivered, u_closes>>

\* the reader with the operations that skip fragments
ReaderSkipNext ==
    \/ \E k \in 0..StreamLen, e \in BOOLEAN : fill_buffer(k, e)
    \/ fill_buffer_then
    \/ pop_mutation_fragment
    \/ close
    \/ \E e \in BOOLEAN : next_partition(e)
    \/ \E p \in partition_boundaries : fast_forward_to(p)

ReaderNext ==
    \/ \E k \in 0..StreamLen, e \in BOOLEAN : fill_buffer(k, e)
    \/ fill_buffer_then
    \/ pop_mutation_fragment
    \/ close

\* C21: for any sequence of fill_buffer calls and pops, the fragments
\* delivered, then the buffered ones, are the fragments the underlying
\* reader produced, in order, none lost or duplicated, and the delegating
\* reader is at end of stream only when the underlying reader is.
FragmentsPreserved ==
    /\ r_delivered \o r_buf \o u_buf = SubSeq(Stream, 1, u_pos)
    /\ r_eos => u_eos
    /\ r_eos => r_delivered \o r_buf = Stream

FragmentsPreservedWitness ==
    /\ r_eos
    /\ r_buf = <<>>
    /\ r_delivered = Stream
    /\ r_pc = "idle"

\* C22: close() of a delegating reader built from an rvalue closes the
\* underlying reader exactly once; close() of one built from an lvalue never
\* closes it.
UnderlyingClosedIffOwned ==
    /\ r_pc # "closed" => u_closes = 0
    /\ r_pc = "closed" => u_closes = IF r_owned THEN 1 ELSE 0

UnderlyingClosedIffOwnedWitness ==
    /\ r_pc = "closed"
    /\ r_owned
    /\ u_closes = 1
    /\ r_delivered # <<>>

\* C33: next_partition has forwarded the request to the underlying reader
\* only with an empty buffer, a next_partition that left fragments in the
\* buffer did not forward, after either the end-of-stream flag is true
\* exactly when the underlying reader is at its end with an empty buffer;
\* after fast_forward_to(partition_range) the buffer is empty and
\* end-of-stream is false.
NextPartitionAndFastForward ==
    /\ r_last = "next_partition_forwarded" => r_buf = <<>>
    /\ r_last = "next_partition_local" =>
          r_buf # <<>> /\ is_partition_start(Head(r_buf))
    /\ r_last \in {"next_partition_forwarded", "next_partition_local"} =>
          (r_eos <=> (u_eos /\ u_buf = <<>>))
    /\ r_last = "fast_forward_to" => (r_buf = <<>> /\ ~r_eos)

\* next_partition ran on a buffer holding the rest of a partition and the
\* start of the next one, and did not forward the request
NextPartitionAndFastForwardWitness ==
    /\ r_last = "next_partition_local"
    /\ r_delivered # <<>>
    /\ ~is_partition_start(r_delivered[Len(r_delivered)])
    /\ Len(r_buf) = 1
    /\ ~r_eos

(***************************************************************************)
(* cql3::selection::result_set_builder                                     *)
(***************************************************************************)
\* the values the group-by cell of an input row takes
GroupKeys == {1, 2, 3}

NoRow == 0

\* Defect: the test of _group_began is missing.
last_group_ended_unbegun(cfg, sel, current) ==
    IF ~cfg.group_by
    THEN sel.group_began /\ ~cfg.aggregate
    ELSE sel.last_group # current

\* last_group_ended
last_group_ended(cfg, sel, current) ==
    IF ~sel.group_began
    THEN FALSE
    ELSE IF ~cfg.group_by
    THEN ~cfg.aggregate
    ELSE sel.last_group # current

\* flush_selectors, for aggregating selectors: the output row of the
\* selectors (a count of the rows they were given) is added and they are reset
flush_selectors(st) ==
    [st EXCEPT !.rows = Append(@, [count |-> st.sel.acc]), !.sel.acc = 0]

\* process_current_row(more_rows_coming), on st = [current, sel, rows]
process_current_row(cfg, st, more_rows_coming) ==
    IF st.current = NoRow
    THEN st
    ELSE IF ~cfg.aggregate
    THEN [st EXCEPT !.rows = Append(@, [cell |-> st.current])]
    ELSE LET flushed == IF last_group_ended(cfg, st.sel, st.current)
                        THEN flush_selectors(st) ELSE st
             added == [flushed EXCEPT !.sel.group_began = TRUE,
                                      !.sel.last_group = st.current,
                                      !.sel.acc = @ + 1]
         IN  IF more_rows_coming THEN added ELSE flush_selectors(added)

RsInit ==
    /\ rs_cfg \in [aggregate : BOOLEAN, group_by : BOOLEAN]
    /\ rs_current = NoRow
    /\ rs_sel = [acc |-> 0, last_group |-> NoRow, group_began |-> FALSE]
    /\ rs_rows = <<>>
    /\ rs_n = 0
    /\ rs_in = <<>>
    /\ rs_built = FALSE

RsIdle ==
    /\ rs_cfg = [aggregate |-> FALSE, group_by |-> FALSE]
    /\ rs_current = NoRow
    /\ rs_sel = [acc |-> 0, last_group |-> NoRow, group_began |-> FALSE]
    /\ rs_rows = <<>>
    /\ rs_n = 0
    /\ rs_in = <<>>
    /\ rs_built = FALSE

rsState == [current |-> rs_current, sel |-> rs_sel, rows |-> rs_rows]

\* new_row(), followed by the add calls that give the row its cells
new_row(key) ==
    /\ ~rs_built
    /\ rs_n < MaxRows
    /\ LET st == process_current_row(rs_cfg, rsState, TRUE)
       IN  /\ rs_sel' = st.sel
           /\ rs_rows' = st.rows
    /\ rs_current' = key
    /\ rs_n' = rs_n + 1
    /\ rs_in' = Append(rs_in, key)
    /\ UNCHANGED <<otherThanRs, rs_cfg, rs_built>>

build_without_identity ==
    /\ ~rs_built
    /\ LET st == process_current_row(rs_cfg, rsState, FALSE)
       IN  /\ rs_sel' = st.sel
           /\ rs_rows' = st.rows
    /\ rs_built' = TRUE
    /\ UNCHANGED <<otherThanRs, rs_cfg, rs_current, rs_n, rs_in>>

\* build()
build ==
    /\ ~rs_built
    /\ LET st == process_current_row(rs_cfg, rsState, FALSE)
       IN  /\ rs_sel' = st.sel
           /\ rs_rows' = IF st.rows = <<>> /\ rs_cfg.aggregate /\ ~rs_cfg.group_by
                         THEN <<[count |-> st.sel.acc]>>
                         ELSE st.rows
    /\ rs_built' = TRUE
    /\ UNCHANGED <<otherThanRs, rs_cfg, rs_current, rs_n, rs_in>>

RsNext ==
    \/ \E key \in GroupKeys : new_row(key)
    \/ build

\* C23: for an aggregate selection, build() on a builder that never received
\* a row emits exactly one row, the aggregates' output for no input, when
\* there is no GROUP BY and no row when there is one; with at least one
\* input row and no GROUP BY it emits exactly one row.
AggregateRowCount ==
    (rs_built /\ rs_cfg.aggregate) =>
        /\ (rs_n = 0 /\ ~rs_cfg.group_by) => rs_rows = <<[count |-> 0]>>
        /\ (rs_n = 0 /\ rs_cfg.group_by) => rs_rows = <<>>
        /\ (rs_n >= 1 /\ ~rs_cfg.group_by) => Len(rs_rows) = 1

AggregateRowCountWitness ==
    /\ rs_built
    /\ rs_cfg.aggregate
    /\ ~rs_cfg.group_by
    /\ rs_n = 0
    /\ Len(rs_rows) = 1

\* the lengths of the maximal runs of equal consecutive values of a sequence
RECURSIVE RunLengths(_)
RunLengths(seq) ==
    IF seq = <<>> THEN <<>>
    ELSE LET n == Len(seq)
             start == CHOOSE i \in 1..n :
                         /\ \A j \in i..n : seq[j] = seq[n]
                         /\ i = 1 \/ seq[i - 1] # seq[n]
         IN  Append(RunLengths(SubSeq(seq, 1, start - 1)), n - start + 1)

\* the numbers of input rows the output rows aggregate
RowCounts(rows) == [i \in 1..Len(rows) |-> rows[i].count]

\* C34: for an aggregate selection with GROUP BY, build() leaves one output
\* row per maximal run of consecutive input rows with equal group-by values,
\* in input order, each aggregating the rows of its run; before build() the
\* output rows are those of the runs that a later row with other group-by
\* values has ended, and the accumulator holds the rows of the run that has
\* not ended.
OneRowPerGroupRun ==
    (rs_cfg.aggregate /\ rs_cfg.group_by) =>
        /\ rs_built => RowCounts(rs_rows) = RunLengths(rs_in)
        /\ (~rs_built /\ rs_n >= 1) =>
              RunLengths(SubSeq(rs_in, 1, rs_n - 1))
                  = IF rs_sel.acc > 0
                    THEN Append(RowCounts(rs_rows), rs_sel.acc)
                    ELSE RowCounts(rs_rows)

\* three rows in two groups were given and build() has run
OneRowPerGroupRunWitness ==
    /\ rs_cfg.aggregate
    /\ rs_cfg.group_by
    /\ rs_built
    /\ Len(rs_in) = 3
    /\ rs_in[1] = rs_in[2]
    /\ rs_in[2] # rs_in[3]
    /\ RowCounts(rs_rows) = <<2, 1>>

(***************************************************************************)
(* db::view::regular_column_transformation::result                         *)
(***************************************************************************)
\* api::missing_timestamp, the initial value of _ts
missing_timestamp == -1

NoInput == [none |-> TRUE]
NoCell == [absent |-> TRUE]

\* atomic_cell_view: a live cell has a value and possibly a ttl (0: none); a
\* dead cell has only its deletion timestamp.  A std::optional<bytes> is a
\* sequence of at most one value.
AtomicCells ==
    [live : {TRUE}, timestamp : 1..4, value : 1..3, ttl : {0, 5, 9}]
        \cup [live : {FALSE}, timestamp : 1..4, value : {0}, ttl : {0}]

\* the transformation functions f: the identity, one that keeps only the
\* value 1 (as serialized_value_if_type keeps one type), one that maps
TransformFunctions == {"identity", "only_1", "plus_10"}

apply(f, v) ==
    CASE f = "identity" -> <<v>>
      [] f = "only_1" -> IF v = 1 THEN <<v>> ELSE <<>>
      [] f = "plus_10" -> <<v + 10>>

has_value(r) == r._value # <<>>
is_deleted(r) == r._deleted
is_missing(r) == ~has_value(r) /\ ~is_deleted(r)

\* result()
result_default == [_value |-> <<>>, _deleted |-> FALSE, _ts |-> missing_timestamp]

result_of_cell_unflagged(cell, f) ==
    IF cell.live
    THEN IF apply(f, cell.value) # <<>>
         THEN [_value |-> apply(f, cell.value), _deleted |-> FALSE,
               _ts |-> cell.timestamp, _ttl |-> cell.ttl]
         ELSE [_value |-> <<>>, _deleted |-> FALSE, _ts |-> cell.timestamp]
    ELSE [_value |-> <<>>, _deleted |-> TRUE, _ts |-> cell.timestamp]

\* result(atomic_cell_view cell, Func f); _ttl is assigned only when the
\* result has a value (no_ttl is 0, the ttl of a cell without one)
result_of_cell(cell, f) ==
    IF cell.live
    THEN IF apply(f, cell.value) # <<>>
         THEN [_value |-> apply(f, cell.value), _deleted |-> FALSE,
               _ts |-> cell.timestamp, _ttl |-> cell.ttl]
         ELSE [_value |-> <<>>, _deleted |-> TRUE, _ts |-> cell.timestamp]
    ELSE [_value |-> <<>>, _deleted |-> TRUE, _ts |-> cell.timestamp]

TrInit ==
    /\ tr_input = NoInput
    /\ tr_result = NoInput

TrIdle ==
    /\ tr_input = NoInput
    /\ tr_result = NoInput

construct_missing ==
    /\ tr_input' = [cell |-> NoCell, f |-> "identity"]
    /\ tr_result' = result_default
    /\ UNCHANGED otherThanTr

construct_from_cell(cell, f) ==
    /\ tr_input' = [cell |-> cell, f |-> f]
    /\ tr_result' = result_of_cell(cell, f)
    /\ UNCHANGED otherThanTr

TrNext ==
    \/ construct_missing
    \/ \E cell \in AtomicCells, f \in TransformFunctions : construct_from_cell(cell, f)

\* C24: every result, however constructed, satisfies exactly one of
\* has_value(), is_deleted(), is_missing(); a result built from a cell is
\* never missing and carries the cell's timestamp.
ExactlyOneResultState ==
    tr_result # NoInput =>
        /\ Cardinality({p \in {"value", "deleted", "missing"} :
               \/ p = "value" /\ has_value(tr_result)
               \/ p = "deleted" /\ is_deleted(tr_result)
               \/ p = "missing" /\ is_missing(tr_result)}) = 1
        /\ tr_input.cell # NoCell =>
               /\ ~is_missing(tr_result)
               /\ tr_result._ts = tr_input.cell.timestamp

ExactlyOneResultStateWitness ==
    /\ tr_result # NoInput
    /\ tr_input.cell # NoCell
    /\ tr_input.cell.live
    /\ is_deleted(tr_result)
    /\ tr_result._ts = tr_input.cell.timestamp

(***************************************************************************)
(* db::schema_tables::schema_applier: prepare, update, commit, notify.     *)
(* The class is declared in the source; the bodies of its phases follow    *)
(* the description of the four-phase protocol.                             *)
(***************************************************************************)
SaShards == 0..(smp_count - 1)
SaTables == {"t1", "t2"}
NoView == [none |-> TRUE]

\* the schema built by update(): the tables of the batch move to their next
\* version, the others keep theirs
new_schema(old, tables) ==
    [t \in SaTables |-> IF t \in tables THEN old[t] + 1 ELSE old[t]]

SaInit ==
    /\ sa_pc = "idle"
    /\ sa_batch = {}
    /\ sa_old = [t \in SaTables |-> 0]
    /\ sa_done = {}
    /\ sa_merges = 0
    /\ sa_lock = "free"
    /\ sa_live = [s \in SaShards |-> [t \in SaTables |-> 0]]
    /\ ob_pc = "idle"
    /\ ob_locked = FALSE
    /\ ob_seen = [s \in SaShards |-> NoView]
    /\ ob_in_commit = FALSE

SaIdle ==
    /\ sa_pc = "idle"
    /\ sa_batch = {}
    /\ sa_old = [t \in SaTables |-> 0]
    /\ sa_done = {}
    /\ sa_merges = 0
    /\ sa_lock = "free"
    /\ sa_live = [s \in SaShards |-> [t \in SaTables |-> 0]]
    /\ ob_pc = "idle"
    /\ ob_locked = FALSE
    /\ ob_seen = [s \in SaShards |-> NoView]
    /\ ob_in_commit = FALSE

obVars == <<ob_pc, ob_locked, ob_seen, ob_in_commit>>

\* prepare(muts): snapshots the state before the mutations are applied
prepare(tables) ==
    /\ sa_pc = "idle"
    /\ sa_merges < MaxMerges
    /\ sa_pc' = "prepared"
    /\ sa_batch' = tables
    /\ sa_old' = sa_live[0]
    /\ sa_merges' = sa_merges + 1
    /\ UNCHANGED <<sa_done, sa_lock, sa_live, obVars, otherThanSa>>

update_publishing ==
    /\ sa_pc = "prepared"
    /\ sa_lock = "free"
    /\ sa_pc' = "updated"
    /\ sa_lock' = "applier"
    /\ sa_live' = [sa_live EXCEPT ![0] = new_schema(sa_old, sa_batch)]
    /\ UNCHANGED <<sa_batch, sa_old, sa_done, sa_merges, obVars, otherThanSa>>

\* update(): builds the new schema objects, visible to the applier only, and
\* takes the tables' metadata locks on all shards ahead of the commit
update ==
    /\ sa_pc = "prepared"
    /\ sa_lock = "free"
    /\ sa_pc' = "updated"
    /\ sa_lock' = "applier"
    /\ UNCHANGED <<sa_batch, sa_old, sa_done, sa_merges, sa_live, obVars,
                   otherThanSa>>

\* commit_on_shard(db), called by commit() for every shard: the shard swaps
\* its schema structures for the new ones in one step
commit_on_shard(s) ==
    /\ sa_pc \in {"updated", "commit"}
    /\ s \notin sa_done
    /\ sa_pc' = "commit"
    /\ sa_live' = [sa_live EXCEPT ![s] = new_schema(sa_old, sa_batch)]
    /\ sa_done' = sa_done \cup {s}
    /\ UNCHANGED <<sa_batch, sa_old, sa_merges, sa_lock, obVars, otherThanSa>>

\* commit() returns once every shard has switched; the locks are released
commit_complete ==
    /\ sa_pc = "commit"
    /\ sa_done = SaShards
    /\ sa_pc' = "committed"
    /\ sa_lock' = "free"
    /\ ob_in_commit' = FALSE
    /\ UNCHANGED <<sa_batch, sa_old, sa_done, sa_merges, sa_live, ob_pc,
                   ob_locked, ob_seen, otherThanSa>>

\* notify(): callbacks on the committed state
notify ==
    /\ sa_pc = "committed"
    /\ sa_pc' = "idle"
    /\ sa_batch' = {}
    /\ sa_done' = {}
    /\ UNCHANGED <<sa_old, sa_merges, sa_lock, sa_live, obVars, otherThanSa>>

\* another component starts reading the schema of the shards, with or
\* without the tables' metadata lock
observe_begin(locked) ==
    /\ ob_pc = "idle"
    /\ locked => sa_lock = "free"
    /\ ob_pc' = "reading"
    /\ ob_locked' = locked
    /\ sa_lock' = IF locked THEN "observer" ELSE sa_lock
    /\ ob_seen' = [s \in SaShards |-> NoView]
    /\ ob_in_commit' = (sa_pc = "commit")
    /\ UNCHANGED <<sa_pc, sa_batch, sa_old, sa_done, sa_merges, sa_live,
                   otherThanSa>>

\* it reads the schema one shard holds
observe_shard(s) ==
    /\ ob_pc = "reading"
    /\ ob_seen[s] = NoView
    /\ ob_seen' = [ob_seen EXCEPT ![s] = sa_live[s]]
    /\ UNCHANGED <<sa_pc, sa_batch, sa_old, sa_done, sa_merges, sa_lock,
                   sa_live, ob_pc, ob_locked, ob_in_commit, otherThanSa>>

observe_end ==
    /\ ob_pc = "reading"
    /\ ob_pc' = "idle"
    /\ ob_locked' = FALSE
    /\ sa_lock' = IF ob_locked THEN "free" ELSE sa_lock
    /\ ob_seen' = [s \in SaShards |-> NoView]
    /\ ob_in_commit' = FALSE
    /\ UNCHANGED <<sa_pc, sa_batch, sa_old, sa_done, sa_merges, sa_live,
                   otherThanSa>>

SaNext ==
    \/ \E tables \in (SUBSET SaTables) \ {{}} : prepare(tables)
    \/ update
    \/ \E s \in SaShards : commit_on_shard(s)
    \/ commit_complete
    \/ notify
    \/ \E locked \in BOOLEAN : observe_begin(locked)
    \/ \E s \in SaShards : observe_shard(s)
    \/ observe_end

\* what the shards read so far by the observer agree on every table
SeenShardsAgree ==
    \A s1, s2 \in SaShards :
        (ob_seen[s1] # NoView /\ ob_seen[s2] # NoView) => ob_seen[s1] = ob_seen[s2]

\* prepare() and update() leave the schema the shards hold as it was
UnchangedBeforeCommit ==
    sa_pc \in {"prepared", "updated"} => \A s \in SaShards : sa_live[s] = sa_old

\* C25 as stated: no observer reading the shards during the commit phase of a
\* merge sees some shards with the new schema of a table and others with the
\* old one, and before commit() the schema in memory is unchanged.
ShardsFlipTogether ==
    /\ ob_in_commit => SeenShardsAgree
    /\ UnchangedBeforeCommit

\* C25 amended: every shard switches all the tables of the batch in one step
\* (it holds the whole old or the whole new schema), the shards switch one
\* after another while the applier holds the tables' metadata locks, so an
\* observer holding those locks sees all shards agree; and before commit()
\* the schema in memory is unchanged by prepare() and update().
ShardsFlipUnderLock ==
    /\ \A s \in SaShards :
          sa_pc # "idle" =>
              sa_live[s] \in {sa_old, new_schema(sa_old, sa_batch)}
    /\ sa_pc = "commit" => sa_lock = "applier"
    /\ (ob_pc = "reading" /\ ob_locked) => SeenShardsAgree
    /\ UnchangedBeforeCommit

ShardsFlipUnderLockWitness ==
    /\ sa_pc = "commit"
    /\ Cardinality(sa_batch) = 2
    /\ sa_done # {}
    /\ sa_done # SaShards
    /\ ob_in_commit
    /\ \A s \in SaShards : ob_seen[s] # NoView

(***************************************************************************)
(* replica::tablet_map_to_mutations, save_tablet_metadata and              *)
(* read_tablet_metadata over system.tablets.  The functions are declared   *)
(* in the source; their bodies follow their documentation.                 *)
(***************************************************************************)
\* api::min_timestamp stands below every timestamp a caller may pass
min_timestamp == 0

TabletTables == {1, 2}
TabletIds == 1..MaxTablets
\* a tablet map: the replica set of each of its tablets, in tablet order;
\* the maps written are those of 1..MaxTablets tablets on one replica set
TabletMaps == {[i \in 1..n |-> r] : n \in 1..MaxTablets, r \in {"r1", "r2"}}
Timestamps == (min_timestamp + 1)..MaxTimestamp

NoCells == [i \in TabletIds |-> [ts |-> min_timestamp, v |-> "none"]]
EmptyPartition == [tomb |-> min_timestamp, rows |-> NoCells]
NotRead == [none |-> TRUE]

\* the mutation of one table without the deletion of older information
tablet_map_to_mutations_without_tombstone(map, ts) ==
    [tomb |-> min_timestamp,
     rows |-> [i \in TabletIds |->
                 IF i \in DOMAIN map THEN [ts |-> ts, v |-> map[i]]
                 ELSE NoCells[i]]]

\* tablet_map_to_mutations: the mutation of one table; it deletes everything
\* written to the table before ts and writes one row per tablet at ts
tablet_map_to_mutations(map, ts) ==
    [tomb |-> ts - 1,
     rows |-> [i \in TabletIds |->
                 IF i \in DOMAIN map THEN [ts |-> ts, v |-> map[i]]
                 ELSE NoCells[i]]]

\* applying a mutation to a partition: the later tombstone and, for every
\* row, the later cell win
apply_mutation(p, m) ==
    [tomb |-> IF m.tomb > p.tomb THEN m.tomb ELSE p.tomb,
     rows |-> [i \in TabletIds |->
                 IF m.rows[i].ts > p.rows[i].ts THEN m.rows[i] ELSE p.rows[i]]]

\* the tablet map read_tablet_metadata builds from a partition: the rows not
\* covered by the tombstone
read_tablet_map(p) ==
    [i \in {j \in TabletIds : p.rows[j].ts > p.tomb} |-> p.rows[i].v]

TmInit ==
    /\ tm_store = [t \in TabletTables |-> EmptyPartition]
    /\ tm_expect = [t \in TabletTables |-> <<>>]
    /\ tm_max_ts = [t \in TabletTables |-> min_timestamp]
    /\ tm_monotonic = [t \in TabletTables |-> TRUE]
    /\ tm_writes = 0
    /\ tm_read = NotRead

TmIdle ==
    /\ tm_store = [t \in TabletTables |-> EmptyPartition]
    /\ tm_expect = [t \in TabletTables |-> <<>>]
    /\ tm_max_ts = [t \in TabletTables |-> min_timestamp]
    /\ tm_monotonic = [t \in TabletTables |-> TRUE]
    /\ tm_writes = 0
    /\ tm_read = NotRead

\* save_tablet_metadata(db, tm, ts): tm holds the maps of the tables in its
\* domain; a call of tablet_map_to_mutations whose sink applies the
\* mutations is the case of one table
save_tablet_metadata(tm, ts) ==
    /\ tm_writes < MaxTabletWrites
    /\ tm_read = NotRead
    /\ tm_writes' = tm_writes + 1
    /\ tm_store' = [t \in TabletTables |->
                      IF t \in DOMAIN tm
                      THEN apply_mutation(tm_store[t],
                                          tablet_map_to_mutations(tm[t], ts))
                      ELSE tm_store[t]]
    /\ tm_expect' = [t \in TabletTables |->
                       IF t \in DOMAIN tm THEN tm[t] ELSE tm_expect[t]]
    /\ tm_max_ts' = [t \in TabletTables |->
                       IF t \in DOMAIN tm /\ ts > tm_max_ts[t] THEN ts
                       ELSE tm_max_ts[t]]
    /\ tm_monotonic' = [t \in TabletTables |->
                          IF t \in DOMAIN tm
                          THEN tm_monotonic[t] /\ ts > tm_max_ts[t]
                          ELSE tm_monotonic[t]]
    /\ UNCHANGED <<tm_read, otherThanTm>>

\* read_tablet_metadata(qp)
read_tablet_metadata ==
    /\ tm_read = NotRead
    /\ tm_read' = [t \in TabletTables |-> read_tablet_map(tm_store[t])]
    /\ UNCHANGED <<tm_store, tm_expect, tm_max_ts, tm_monotonic, tm_writes,
                   otherThanTm>>

TmNext ==
    \/ \E ts \in Timestamps :
         \E tables \in (SUBSET TabletTables) \ {{}} :
           \E tm \in [tables -> TabletMaps] : save_tablet_metadata(tm, ts)
    \/ read_tablet_metadata

\* C26: for a table whose maps were written at strictly increasing
\* timestamps, what read_tablet_metadata builds is exactly the map written
\* last, with no tablet left from an earlier map; the map of a table absent
\* from a save_tablet_metadata call stays the one written before.
LastTabletMapOnly ==
    \A t \in TabletTables :
        (tm_read # NotRead /\ tm_monotonic[t]) => tm_read[t] = tm_expect[t]

\* a shorter map was written over a longer one of the same table and read
\* back, while the other table kept the map written to it earlier
LastTabletMapOnlyWitness ==
    \E t, u \in TabletTables :
        /\ t # u
        /\ tm_read # NotRead
        /\ tm_monotonic[t]
        /\ tm_monotonic[u]
        /\ tm_store[t].tomb > min_timestamp
        /\ Len(tm_expect[t]) = 1
        /\ tm_store[t].rows[2].ts > min_timestamp
        /\ tm_read[t] = tm_expect[t]
        /\ tm_max_ts[u] < tm_max_ts[t]
        /\ tm_read[u] = tm_expect[u]
        /\ tm_expect[u] # <<>>

(***************************************************************************)
(* cql3::selection::result_set_builder::restrictions_filter                *)
(***************************************************************************)

\* std::numeric_limits<uint64_t>::max() at the width of the model
UINT64_MAX == 2^UintBits - 1

RfKeys == 1..2
NoKey == 0
NoPartition == [key |-> NoKey, pk |-> FALSE, st |-> FALSE, visited |-> FALSE]
NoFilterCall == [op |-> "none", accepted |-> FALSE, evals |-> 0, cause |-> "none"]

\* selection.get_columns(): one column of each kind, in schema order; a
\* column without a restriction behaves as one whose restriction is satisfied
selection_columns ==
    <<"partition_key", "clustering_key", "static_column", "regular_column">>

\* what the candidate rows of a partition can look like: the outcome of each
\* restriction on the row, whether there is a regular row, whether the
\* clustering key is empty (the call made at the end of a partition that has
\* only a static row)
RfRows ==
    {r \in [multi : BOOLEAN, ck : BOOLEAN, reg : BOOLEAN, has_row : BOOLEAN,
             ck_empty : BOOLEAN] : r.ck_empty = ~r.has_row}

\* the statements: key restrictions that need filtering with and without a
\* multi-column restriction, and restrictions on other columns only
RfConfigs ==
    {[skip_pk |-> FALSE, skip_ck |-> FALSE, multi_col |-> TRUE],
     [skip_pk |-> FALSE, skip_ck |-> FALSE, multi_col |-> FALSE],
     [skip_pk |-> TRUE, skip_ck |-> TRUE, multi_col |-> FALSE]}

Accepted(evals) ==
    [accepted |-> TRUE, evals |-> evals, cause |-> "none",
     pk_no |-> FALSE, st_no |-> FALSE]

Rejected(evals, cause) ==
    [accepted |-> FALSE, evals |-> evals, cause |-> cause,
     pk_no |-> cause = "partition_key", st_no |-> cause = "static_column"]

\* the loop of do_filter over selection.get_columns(); evals counts the
\* calls of expr::is_satisfied_by
RECURSIVE filter_columns(_, _, _, _, _)
filter_columns(cols, cfg, part, row, evals) ==
    IF cols = <<>> THEN Accepted(evals)
    ELSE LET kind == Head(cols)
             rest == Tail(cols)
         IN  CASE kind = "static_column" ->
                    IF part.st
                    THEN filter_columns(rest, cfg, part, row, evals + 1)
                    ELSE Rejected(evals + 1, "static_column")
               [] kind = "regular_column" ->
                    IF ~row.has_row
                    THEN filter_columns(rest, cfg, part, row, evals)
                    ELSE IF row.reg
                    THEN filter_columns(rest, cfg, part, row, evals + 1)
                    ELSE Rejected(evals + 1, "regular_column")
               [] kind = "partition_key" ->
                    IF cfg.skip_pk
                    THEN filter_columns(rest, cfg, part, row, evals)
                    ELSE IF part.pk
                    THEN filter_columns(rest, cfg, part, row, evals + 1)
                    ELSE Rejected(evals + 1, "partition_key")
               [] kind = "clustering_key" ->
                    IF cfg.skip_ck
                    THEN filter_columns(rest, cfg, part, row, evals)
                    ELSE IF row.ck_empty
                    THEN Rejected(evals, "clustering_key")
                    ELSE IF row.ck
                    THEN filter_columns(rest, cfg, part, row, evals + 1)
                    ELSE Rejected(evals + 1, "clustering_key")

\* Defect: the two budgets are not tested.
do_filter_unbudgeted(cfg, part, row) ==
    IF rf_pk_no \/ rf_st_no
    THEN Rejected(0, "short_circuit")
    ELSE IF cfg.multi_col /\ ~row.multi
    THEN Rejected(1, "clustering_key")
    ELSE filter_columns(selection_columns, cfg, part, row,
                        IF cfg.multi_col THEN 1 ELSE 0)

\* restrictions_filter::do_filter
do_filter(cfg, part, row) ==
    IF rf_pk_no \/ rf_st_no \/ rf_remaining = 0 \/ rf_pp_remaining = 0
    THEN Rejected(0, "short_circuit")
    ELSE IF cfg.multi_col /\ ~row.multi
    THEN Rejected(1, "clustering_key")
    ELSE filter_columns(selection_columns, cfg, part, row,
                        IF cfg.multi_col THEN 1 ELSE 0)

RfInit ==
    /\ rf_cfg \in RfConfigs
    /\ rf_remaining \in {0, MaxBudget}
    /\ rf_pp_limit \in (0..MaxBudget) \cup {UINT64_MAX}
    /\ rf_pp_remaining = rf_pp_limit
    /\ rf_fetched \in 0..UINT64_MAX
    /\ rf_last_pkey \in {NoKey, 1}
    /\ rf_first = TRUE
    /\ rf_pk_no = FALSE
    /\ rf_st_no = FALSE
    /\ rf_dropped = 0
    /\ rf_part = NoPartition
    /\ rf_hist = [initial |-> rf_remaining, calls |-> 0, accepted |-> 0,
                  part_accepted |-> 0, carried |-> 0]
    /\ rf_last = NoFilterCall

RfIdle ==
    /\ rf_cfg = [skip_pk |-> TRUE, skip_ck |-> TRUE, multi_col |-> FALSE]
    /\ rf_remaining = 0
    /\ rf_pp_limit = 0
    /\ rf_pp_remaining = 0
    /\ rf_fetched = 0
    /\ rf_last_pkey = NoKey
    /\ rf_first = TRUE
    /\ rf_pk_no = FALSE
    /\ rf_st_no = FALSE
    /\ rf_dropped = 0
    /\ rf_part = NoPartition
    /\ rf_hist = [initial |-> 0, calls |-> 0, accepted |-> 0,
                  part_accepted |-> 0, carried |-> 0]
    /\ rf_last = NoFilterCall

\* Defect: a failed partition-key or static-column restriction is not recorded.
filter_row_unlatched(row) ==
    /\ rf_part.visited
    /\ rf_hist.calls < MaxOffers
    /\ LET r == do_filter(rf_cfg, rf_part, row)
       IN  /\ rf_pk_no' = rf_pk_no
           /\ rf_st_no' = rf_st_no
           /\ rf_dropped' = IF r.accepted THEN rf_dropped ELSE rf_dropped + 1
           /\ rf_remaining' = IF r.accepted /\ rf_remaining > 0
                              THEN rf_remaining - 1 ELSE rf_remaining
           /\ rf_pp_remaining' = IF r.accepted /\ rf_pp_remaining > 0
                                 THEN rf_pp_remaining - 1 ELSE rf_pp_remaining
           /\ rf_hist' = [rf_hist EXCEPT
                            !.calls = @ + 1,
                            !.accepted = IF r.accepted THEN @ + 1 ELSE @,
                            !.part_accepted = IF r.accepted THEN @ + 1 ELSE @]
           /\ rf_last' = [op |-> "filter", accepted |-> r.accepted,
                          evals |-> r.evals, cause |-> r.cause]
    /\ UNCHANGED <<otherThanRf, rf_cfg, rf_pp_limit, rf_fetched, rf_last_pkey,
                   rf_first, rf_part>>

\* restrictions_filter::operator(): one candidate row of the partition
\* being visited
filter_row(row) ==
    /\ rf_part.visited
    /\ rf_hist.calls < MaxOffers
    /\ LET r == do_filter(rf_cfg, rf_part, row)
       IN  /\ rf_pk_no' = (rf_pk_no \/ r.pk_no)
           /\ rf_st_no' = IF r.cause \in {"static_column", "regular_column"}
                          THEN r.st_no ELSE rf_st_no
           /\ rf_dropped' = IF r.accepted THEN rf_dropped ELSE rf_dropped + 1
           /\ rf_remaining' = IF r.accepted /\ rf_remaining > 0
                              THEN rf_remaining - 1 ELSE rf_remaining
           /\ rf_pp_remaining' = IF r.accepted /\ rf_pp_remaining > 0
                                 THEN rf_pp_remaining - 1 ELSE rf_pp_remaining
           /\ rf_hist' = [rf_hist EXCEPT
                            !.calls = @ + 1,
                            !.accepted = IF r.accepted THEN @ + 1 ELSE @,
                            !.part_accepted = IF r.accepted THEN @ + 1 ELSE @]
           /\ rf_last' = [op |-> "filter", accepted |-> r.accepted,
                          evals |-> r.evals, cause |-> r.cause]
    /\ UNCHANGED <<otherThanRf, rf_cfg, rf_pp_limit, rf_fetched, rf_last_pkey,
                   rf_first, rf_part>>

\* restrictions_filter::reset(key): the caller starts the partition `part`;
\* part.key = NoKey is reset(nullptr)
reset(part) ==
    /\ rf_pk_no' = FALSE
    /\ rf_st_no' = FALSE
    /\ rf_dropped' = 0
    /\ LET first == rf_first /\ rf_pp_limit < UINT64_MAX
           same == part.key # NoKey /\ rf_last_pkey # NoKey /\ rf_last_pkey = part.key
       IN  /\ rf_pp_remaining' = IF first /\ same
                                 THEN (rf_pp_limit - rf_fetched) % (UINT64_MAX + 1)
                                 ELSE rf_pp_limit
           /\ rf_first' = IF first THEN FALSE ELSE rf_first
           /\ rf_hist' = [rf_hist EXCEPT
                            !.part_accepted = 0,
                            !.carried = IF first /\ same THEN rf_fetched ELSE 0]
    /\ rf_part' = part
    /\ rf_last' = [NoFilterCall EXCEPT !.op = "reset"]
    /\ UNCHANGED <<otherThanRf, rf_cfg, rf_remaining, rf_pp_limit, rf_fetched,
                   rf_last_pkey>>

RfNext ==
    \/ \E row \in RfRows : filter_row(row)
    \/ \E key \in RfKeys \cup {NoKey}, pk \in BOOLEAN, st \in BOOLEAN :
          reset([key |-> key, pk |-> pk, st |-> st, visited |-> TRUE])

\* C35: each accepted row takes exactly one from the remaining-row budget and
\* leaves the dropped-row counter alone, each rejected row leaves the budget
\* alone and adds one to the dropped-row counter; the budget never goes below
\* zero and the accepted rows never exceed the initial budget.
BudgetCountsAcceptedRows ==
    /\ [](/\ rf_remaining >= 0
          /\ rf_hist.accepted <= rf_hist.initial
          /\ rf_remaining = rf_hist.initial - rf_hist.accepted)
    /\ [][rf_hist'.calls # rf_hist.calls =>
             IF rf_last'.accepted
             THEN /\ rf_remaining' = rf_remaining - 1
                  /\ rf_dropped' = rf_dropped
             ELSE /\ rf_remaining' = rf_remaining
                  /\ rf_dropped' = rf_dropped + 1]_rfVars

\* the whole budget was used and the row offered next was rejected
BudgetCountsAcceptedRowsWitness ==
    /\ rf_hist.initial = MaxBudget
    /\ rf_hist.accepted = MaxBudget
    /\ rf_remaining = 0
    /\ rf_last.op = "filter"
    /\ ~rf_last.accepted
    /\ rf_dropped = 1

\* C36: after reset(key) the per-partition remaining budget never exceeds the
\* per-partition limit, whatever the number of rows already fetched for the
\* last partition of the previous page: right after reset() it is the limit
\* less the rows carried over from the previous page, and the rows accepted
\* for the partition on this page never exceed what reset() left.
PerPartitionBudgetWithinLimit ==
    rf_part.visited =>
        /\ rf_pp_remaining <= rf_pp_limit
        /\ rf_last.op = "reset" =>
              rf_pp_remaining + rf_hist.carried = rf_pp_limit
        /\ rf_hist.part_accepted + rf_pp_remaining <= rf_pp_limit

\* C37: a row offered while a partition-key or static-column mismatch is
\* recorded, or while either budget is zero, is rejected without evaluating
\* any restriction; a row rejected by a partition-key or a static-column
\* restriction records the mismatch, and only reset() clears a recorded
\* mismatch or refills the per-partition budget; a row rejected by a
\* regular-column or clustering-key restriction records nothing and leaves
\* both budgets as they were.
ShortCircuitUntilReset ==
    [][rf_hist'.calls # rf_hist.calls =>
          /\ (rf_pk_no \/ rf_st_no \/ rf_remaining = 0 \/ rf_pp_remaining = 0) =>
                /\ ~rf_last'.accepted
                /\ rf_last'.evals = 0
                /\ rf_pk_no' = rf_pk_no
                /\ rf_st_no' = rf_st_no
                /\ rf_remaining' = rf_remaining
                /\ rf_pp_remaining' = rf_pp_remaining
          /\ rf_last'.cause = "partition_key" => rf_pk_no'
          /\ rf_last'.cause = "static_column" => rf_st_no'
          /\ rf_last'.cause \in {"regular_column", "clustering_key"} =>
                /\ ~rf_pk_no'
                /\ ~rf_st_no'
                /\ rf_remaining' = rf_remaining
                /\ rf_pp_remaining' = rf_pp_remaining]_rfVars

\* a row was rejected without evaluation, with both budgets left, because an
\* earlier row of the partition failed a partition-key restriction
ShortCircuitUntilResetWitness ==
    /\ rf_last.op = "filter"
    /\ rf_last.cause = "short_circuit"
    /\ rf_last.evals = 0
    /\ rf_pk_no
    /\ rf_remaining > 0
    /\ rf_pp_remaining > 0
    /\ rf_dropped = 2

(***************************************************************************)
(* api::set_system: hm::set_metrics_config                                 *)
(***************************************************************************)
\* Rule lists are told apart by a number; list 0 is the empty list a node
\* starts with.
NoRules == 0
RuleLists == 1..2

NoMetricsRequest == [none |-> TRUE]
NoMetricsReply == [result |-> "none", before |-> <<>>, rules |-> NoRules]

SysInit ==
    /\ sys_relabel = [s \in SaShards |-> NoRules]
    /\ sys_req = NoMetricsRequest
    /\ sys_reply = NoMetricsReply
    /\ sys_reqs = 0

SysIdle ==
    /\ sys_relabel = [s \in SaShards |-> NoRules]
    /\ sys_req = NoMetricsRequest
    /\ sys_reply = NoMetricsReply
    /\ sys_reqs = 0

\* set_metrics_config: the body is not a JSON array
set_metrics_config_not_array ==
    /\ sys_req = NoMetricsRequest
    /\ sys_reqs < MaxRequests
    /\ sys_reqs' = sys_reqs + 1
    /\ sys_reply' = [result |-> "Expected a json array", before |-> sys_relabel,
                     rules |-> NoRules]
    /\ UNCHANGED <<otherThanSys, sys_relabel, sys_req>>

\* set_metrics_config: the body is parsed into `relabels` and
\* smp::invoke_on_all starts; `collide` are the shards whose metrics collide
\* under the rule list
set_metrics_config(relabels, collide) ==
    /\ sys_req = NoMetricsRequest
    /\ sys_reqs < MaxRequests
    /\ sys_reqs' = sys_reqs + 1
    /\ sys_req' = [relabels |-> relabels, collide |-> collide,
                   pending |-> SaShards, failed |-> FALSE,
                   before |-> sys_relabel]
    /\ UNCHANGED <<otherThanSys, sys_relabel, sys_reply>>

\* the function invoke_on_all runs on shard s: metrics::set_relabel_configs
\* makes the list the one in effect on the shard, relabels the shard's
\* metrics and reports how many it relabeled because they collided; the
\* continuation sets `failed` when that number is positive
set_relabel_configs(s) ==
    /\ sys_req # NoMetricsRequest
    /\ s \in sys_req.pending
    /\ sys_relabel' = [sys_relabel EXCEPT ![s] = sys_req.relabels]
    /\ sys_req' = [sys_req EXCEPT !.pending = @ \ {s},
                                  !.failed = @ \/ s \in sys_req.collide]
    /\ UNCHANGED <<otherThanSys, sys_reply, sys_reqs>>

\* the continuation of invoke_on_all: bad_param_exception when `failed`
set_metrics_config_done ==
    /\ sys_req # NoMetricsRequest
    /\ sys_req.pending = {}
    /\ sys_reply' = [result |-> IF sys_req.failed
                                THEN "conflicts found during relabeling"
                                ELSE "ok",
                     before |-> sys_req.before,
                     rules |-> sys_req.relabels]
    /\ sys_req' = NoMetricsRequest
    /\ UNCHANGED <<otherThanSys, sys_relabel, sys_reqs>>

SysNext ==
    \/ set_metrics_config_not_array
    \/ \E relabels \in RuleLists, collide \in SUBSET SaShards :
          set_metrics_config(relabels, collide)
    \/ \E s \in SaShards : set_relabel_configs(s)
    \/ set_metrics_config_done

\* C40 as stated: when set_metrics_config fails with "conflicts found during
\* relabeling", the relabel configuration in effect on every shard is the one
\* that was in effect before the request.
RejectedRulesNotApplied ==
    (sys_req = NoMetricsRequest
        /\ sys_reply.result = "conflicts found during relabeling")
    => sys_relabel = sys_reply.before

(***************************************************************************)
(* Specifications                                                          *)
(***************************************************************************)
vars == <<voterVars, vbcVars, httpVars, credVars, dsmVars, ccVars, lsVars,
          readerVars, rsVars, trVars, saVars, tmVars, rfVars, sysVars>>

InitVoter == VoterInit /\ VbcIdle /\ HttpIdle /\ CredIdle /\ DsmIdle /\ CcIdle
        /\ LsIdle /\ ReaderIdle /\ RsIdle /\ TrIdle /\ SaIdle /\ TmIdle /\
        RfIdle /\ SysIdle
InitVbc == VbcInit /\ VoterIdle /\ HttpIdle /\ CredIdle /\ DsmIdle /\ CcIdle
        /\ LsIdle /\ ReaderIdle /\ RsIdle /\ TrIdle /\ SaIdle /\ TmIdle /\
        RfIdle /\ SysIdle
InitHttp == HttpInit /\ VoterIdle /\ VbcIdle /\ CredIdle /\ DsmIdle /\ CcIdle
        /\ LsIdle /\ ReaderIdle /\ RsIdle /\ TrIdle /\ SaIdle /\ TmIdle /\
        RfIdle /\ SysIdle
InitCred == CredInit /\ VoterIdle /\ VbcIdle /\ HttpIdle /\ DsmIdle /\ CcIdle
        /\ LsIdle /\ ReaderIdle /\ RsIdle /\ TrIdle /\ SaIdle /\ TmIdle /\
        RfIdle /\ SysIdle
InitDsm == DsmInit /\ VoterIdle /\ VbcIdle /\ HttpIdle /\ CredIdle /\ CcIdle
        /\ LsIdle /\ ReaderIdle /\ RsIdle /\ TrIdle /\ SaIdle /\ TmIdle /\
        RfIdle /\ SysIdle
InitCc == CcInit /\ VoterIdle /\ VbcIdle /\ HttpIdle /\ CredIdle /\ DsmIdle /\
        LsIdle /\ ReaderIdle /\ RsIdle /\ TrIdle /\ SaIdle /\ TmIdle /\ RfIdle
        /\ SysIdle
InitLs == LsInit /\ VoterIdle /\ VbcIdle /\ HttpIdle /\ CredIdle /\ DsmIdle /\
        CcIdle /\ ReaderIdle /\ RsIdle /\ TrIdle /\ SaIdle /\ TmIdle /\ RfIdle
        /\ SysIdle
InitReader == ReaderInit /\ VoterIdle /\ VbcIdle /\ HttpIdle /\ CredIdle /\
        DsmIdle /\ CcIdle /\ LsIdle /\ RsIdle /\ TrIdle /\ SaIdle /\ TmIdle /\
        RfIdle /\ SysIdle
InitRs == RsInit /\ VoterIdle /\ VbcIdle /\ HttpIdle /\ CredIdle /\ DsmIdle /\
        CcIdle /\ LsIdle /\ ReaderIdle /\ TrIdle /\ SaIdle /\ TmIdle /\ RfIdle
        /\ SysIdle
InitTr == TrInit /\ VoterIdle /\ VbcIdle /\ HttpIdle /\ CredIdle /\ DsmIdle /\
        CcIdle /\ LsIdle /\ ReaderIdle /\ RsIdle /\ SaIdle /\ TmIdle /\ RfIdle
        /\ SysIdle
InitSa == SaInit /\ VoterIdle /\ VbcIdle /\ HttpIdle /\ CredIdle /\ DsmIdle /\
        CcIdle /\ LsIdle /\ ReaderIdle /\ RsIdle /\ TrIdle /\ TmIdle /\ RfIdle
        /\ SysIdle
InitTm == TmInit /\ VoterIdle /\ VbcIdle /\ HttpIdle /\ CredIdle /\ DsmIdle /\
        CcIdle /\ LsIdle /\ ReaderIdle /\ RsIdle /\ TrIdle /\ SaIdle /\ RfIdle
        /\ SysIdle
InitRf == RfInit /\ VoterIdle /\ VbcIdle /\ HttpIdle /\ CredIdle /\ DsmIdle /\
        CcIdle /\ LsIdle /\ ReaderIdle /\ RsIdle /\ TrIdle /\ SaIdle /\ TmIdle
        /\ SysIdle
InitSys == SysInit /\ VoterIdle /\ VbcIdle /\ HttpIdle /\ CredIdle /\ DsmIdle
        /\ CcIdle /\ LsIdle /\ ReaderIdle /\ RsIdle /\ TrIdle /\ SaIdle /\
        TmIdle /\ RfIdle

SpecVoter == InitVoter /\ [][VoterNext]_vars

SpecVbc == InitVbc /\ [][VbcNext]_vars

SpecHttp == InitHttp /\ [][HttpNext]_vars

SpecCred == InitCred /\ [][CredNext]_vars

SpecDsm == InitDsm /\ [][DsmNext]_vars

SpecCc == InitCc /\ [][CcNext]_vars

SpecLs == InitLs /\ [][LsNext]_vars

SpecReader == InitReader /\ [][ReaderNext]_vars

SpecRs == InitRs /\ [][RsNext]_vars

SpecTr == InitTr /\ [][TrNext]_vars

SpecSa == InitSa /\ [][SaNext]_vars

SpecTm == InitTm /\ [][TmNext]_vars

\* The start of the runs checked for termination: one view of a tablets
\* keyspace, one normal node, no task left by a former coordinator.
VbcInitOneView ==
    /\ VbcInit
    /\ schema_views = {<<"ks_tablets", "v1">>}
    /\ normal_nodes = [h \in {1} |-> 1]
    /\ task_table = {}

InitVbcLive == VbcInitOneView /\ VoterIdle /\ HttpIdle /\ CredIdle /\ DsmIdle /\ CcIdle
        /\ LsIdle /\ ReaderIdle /\ RsIdle /\ TrIdle /\ SaIdle /\ TmIdle /\ RfIdle
        /\ SysIdle

\* The reactor runs the coordinator's fiber whenever it can take a step:
\* every operation it awaits completes or fails.
SpecVbcLive == InitVbcLive /\ [][VbcNext]_vars /\ WF_vars(VbcRun)

SpecReaderSkip == InitReader /\ [][ReaderSkipNext]_vars

SpecRf == InitRf /\ [][RfNext]_vars

SpecSys == InitSys /\ [][SysNext]_vars

====
